---- MODULE Spec2Model ----
(***************************************************************************)
(* Brain board diagnostics firmware: the Diagnostics controller            *)
(* (diagnostics.cpp), PotsAndButtons, Inputs and Outputs.                  *)
(*                                                                         *)
(* main() constructs Diagnostics, calls init() and then update() forever.  *)
(* One action = one update() call; the monotonic clock is read by the call *)
(* and has advanced by some d >= 0 ms since the previous call.             *)
(* Time is in milliseconds, voltages in hundredths of a volt.              *)
(***************************************************************************)
EXTENDS Integers, Sequences, FiniteSets, TLC

VARIABLES
    now,                \* monotonic clock (ms) as read by the last update()
    diag,               \* Diagnostics' own fields
    pots_and_buttons_,  \* PotsAndButtons fields
    inputs_,            \* Inputs fields
    outputs_,           \* Outputs fields
    hw,                 \* peripherals: LEDs, DAC voltages, coupling, pulse out
    ev,                 \* peripheral writes and log lines of the last update()
    hist,               \* history of the run (observer, not program state)
    fn                  \* a function of the program applied to one argument

vars == <<now, diag, pots_and_buttons_, inputs_, outputs_, hw, ev, hist, fn>>

(***************************************************************************)
(* Program constants                                                       *)
(***************************************************************************)
NUM_BRIGHTNESS_LEVELS == 5
STARTUP_ANIMATION_DELAY == 1000
BRIGHTNESS_TEST_DELAY == 500
STARTUP_ANIMATION_CYCLES == 3
NO_OF_LEDS == 6
NUM_POTS == 3
POT_MAX == 127
VU_PEAK_HOLD_MS == 100
VU_CENTER == 2048
WAVEFORM_PERIOD_MS == 1000
HALF_PERIOD_MS == 500
MIN_VOLTAGE == 0
MAX_VOLTAGE == 1000
VOLTAGE_PRINT_INTERVAL_MS == 100
STOP_VOLTAGE_DC == 500
STOP_VOLTAGE_AC == 0
COUPLING_NOISE_THRESHOLD == 5
COUPLING_MIDPOINT == 64
LAST_NUM_LEDS_INVALID == 255
LED_FULL == 255
LED_OFF == 0

BRIGHTNESS_LEVELS == <<51, 102, 153, 204, 255>>

(***************************************************************************)
(* Bounds of the model                                                     *)
(***************************************************************************)
NoVoltage == 0 - 1      \* DAC channel not written yet
NoTime == 0 - 1         \* no such instant yet

Selections == {"NONE", "AUDIO_A", "AUDIO_B", "PULSE"}
LedIdx == 0 .. (NO_OF_LEDS - 1)

U8(x) == x % 256
U16(x) == x % 65536

\* enum value of a selection, as printed by (int)
SelInt(s) == CASE s = "NONE" -> 0 [] s = "AUDIO_A" -> 1
               [] s = "AUDIO_B" -> 2 [] s = "PULSE" -> 3

BoolInt(b) == IF b THEN 1 ELSE 0

(***************************************************************************)
(* Events: one record per peripheral write or log line, in program order.  *)
(***************************************************************************)
Ev(op, a, b) == [op |-> op, a |-> a, b |-> b]

Emit(w, e) == [w EXCEPT !.ev = Append(@, e)]

RECURSIVE CountOp(_, _)
CountOp(s, op) ==
    IF s = <<>> THEN 0
    ELSE (IF Head(s).op = op THEN 1 ELSE 0) + CountOp(Tail(s), op)

MaxOf(S) == CHOOSE x \in S : \A y \in S : y <= x

HasOp(s, op) == \E k \in 1 .. Len(s) : s[k].op = op

LedOps == {"startup_animation", "set_brightness", "led_on", "led_off",
           "on_all", "off_all"}

LedWrites(s) == {k \in 1 .. Len(s) : s[k].op \in LedOps}

(***************************************************************************)
(* brain::ui::Leds as the controller uses it                               *)
(***************************************************************************)
leds_on(w, i) ==
    Emit([w EXCEPT !.hw.leds[i] = LED_FULL], Ev("led_on", i, 0))

leds_off(w, i) ==
    Emit([w EXCEPT !.hw.leds[i] = LED_OFF], Ev("led_off", i, 0))

leds_on_all(w) ==
    Emit([w EXCEPT !.hw.leds = [k \in LedIdx |-> LED_FULL]], Ev("on_all", 0, 0))

leds_off_all(w) ==
    Emit([w EXCEPT !.hw.leds = [k \in LedIdx |-> LED_OFF]], Ev("off_all", 0, 0))

\* an index outside the LED array / brightness table is recorded, not stored
leds_set_brightness(w, i, v) ==
    Emit(IF i \in LedIdx THEN [w EXCEPT !.hw.leds[i] = v] ELSE w,
         Ev("set_brightness", i, v))

\* the animation runs to its end inside the call and leaves the LEDs dark
leds_startup_animation(w) ==
    Emit([w EXCEPT !.hw.leds = [k \in LedIdx |-> LED_OFF]],
         Ev("startup_animation", 0, 0))

\* light the first n LEDs, darken the rest (the for-loops of the renderers)
RECURSIVE leds_bar_from(_, _, _)
leds_bar_from(w, n, i) ==
    IF i >= NO_OF_LEDS THEN w
    ELSE leds_bar_from(IF i < n THEN leds_on(w, i) ELSE leds_off(w, i), n, i + 1)

BarPattern(n) == [k \in LedIdx |-> IF k < n THEN LED_FULL ELSE LED_OFF]
AllOn == [k \in LedIdx |-> LED_FULL]
AllOff == [k \in LedIdx |-> LED_OFF]

(***************************************************************************)
(* Diagnostics: LED self test                                              *)
(***************************************************************************)
BrightnessAt(step) ==
    IF step + 1 \in DOMAIN BRIGHTNESS_LEVELS THEN BRIGHTNESS_LEVELS[step + 1]
    ELSE 0

\* mutant: the third animation jumps straight to interactive mode
test_led_startup_animation_skips(w) ==
    LET elapsed_ms == w.now - w.diag.last_update_time_ IN
    IF elapsed_ms >= STARTUP_ANIMATION_DELAY
    THEN LET w1 == leds_startup_animation(w)
             w2 == [w1 EXCEPT !.diag.startup_animation_count_ = U8(@ + 1)]
             w3 == IF w2.diag.startup_animation_count_ >= STARTUP_ANIMATION_CYCLES
                   THEN [w2 EXCEPT !.diag.current_state_ = "INTERACTIVE_MODE",
                                   !.diag.current_led_ = 0,
                                   !.diag.current_brightness_step_ = 0]
                   ELSE w2
         IN [w3 EXCEPT !.diag.last_update_time_ = w.now]
    ELSE w

\* mutant: the time of the step is not recorded
test_led_startup_animation_no_stamp(w) ==
    LET elapsed_ms == w.now - w.diag.last_update_time_ IN
    IF elapsed_ms >= STARTUP_ANIMATION_DELAY
    THEN LET w1 == leds_startup_animation(w)
             w2 == [w1 EXCEPT !.diag.startup_animation_count_ = U8(@ + 1)]
         IN IF w2.diag.startup_animation_count_ >= STARTUP_ANIMATION_CYCLES
            THEN [w2 EXCEPT !.diag.current_state_ = "LED_BRIGHTNESS_TEST",
                            !.diag.current_led_ = 0,
                            !.diag.current_brightness_step_ = 0]
            ELSE w2
    ELSE w

test_led_startup_animation(w) ==
    LET elapsed_ms == w.now - w.diag.last_update_time_ IN
    IF elapsed_ms >= STARTUP_ANIMATION_DELAY
    THEN LET w1 == leds_startup_animation(w)
             w2 == [w1 EXCEPT !.diag.startup_animation_count_ = U8(@ + 1)]
             w3 == IF w2.diag.startup_animation_count_ >= STARTUP_ANIMATION_CYCLES
                   THEN [w2 EXCEPT !.diag.current_state_ = "LED_BRIGHTNESS_TEST",
                                   !.diag.current_led_ = 0,
                                   !.diag.current_brightness_step_ = 0]
                   ELSE w2
         IN [w3 EXCEPT !.diag.last_update_time_ = w.now]
    ELSE w

\* mutant: the LED count is compared with > instead of >=
test_led_brightness_extra_led(w) ==
    LET elapsed_ms == w.now - w.diag.last_update_time_ IN
    IF elapsed_ms >= BRIGHTNESS_TEST_DELAY
    THEN LET led == w.diag.current_led_
             w1 == leds_set_brightness(w, led,
                       BrightnessAt(w.diag.current_brightness_step_))
             w2 == [w1 EXCEPT !.diag.current_brightness_step_ = U8(@ + 1)]
             w3 == IF w2.diag.current_brightness_step_ >= NUM_BRIGHTNESS_LEVELS
                   THEN LET a == leds_off(w2, led)
                            b == [a EXCEPT !.diag.current_brightness_step_ = 0,
                                           !.diag.current_led_ = U8(@ + 1)]
                        IN IF b.diag.current_led_ > NO_OF_LEDS
                           THEN [leds_off_all(b) EXCEPT
                                    !.diag.current_state_ = "INTERACTIVE_MODE"]
                           ELSE b
                   ELSE w2
         IN [w3 EXCEPT !.diag.last_update_time_ = w.now]
    ELSE w

\* mutant: the ladder length is compared with > instead of >=
test_led_brightness_extra_level(w) ==
    LET elapsed_ms == w.now - w.diag.last_update_time_ IN
    IF elapsed_ms >= BRIGHTNESS_TEST_DELAY
    THEN LET led == w.diag.current_led_
             w1 == leds_set_brightness(w, led,
                       BrightnessAt(w.diag.current_brightness_step_))
             w2 == [w1 EXCEPT !.diag.current_brightness_step_ = U8(@ + 1)]
             w3 == IF w2.diag.current_brightness_step_ > NUM_BRIGHTNESS_LEVELS
                   THEN LET a == leds_off(w2, led)
                            b == [a EXCEPT !.diag.current_brightness_step_ = 0,
                                           !.diag.current_led_ = U8(@ + 1)]
                        IN IF b.diag.current_led_ >= NO_OF_LEDS
                           THEN [leds_off_all(b) EXCEPT
                                    !.diag.current_state_ = "INTERACTIVE_MODE"]
                           ELSE b
                   ELSE w2
         IN [w3 EXCEPT !.diag.last_update_time_ = w.now]
    ELSE w

test_led_brightness(w) ==
    LET elapsed_ms == w.now - w.diag.last_update_time_ IN
    IF elapsed_ms >= BRIGHTNESS_TEST_DELAY
    THEN LET led == w.diag.current_led_
             w1 == leds_set_brightness(w, led,
                       BrightnessAt(w.diag.current_brightness_step_))
             w2 == [w1 EXCEPT !.diag.current_brightness_step_ = U8(@ + 1)]
             w3 == IF w2.diag.current_brightness_step_ >= NUM_BRIGHTNESS_LEVELS
                   THEN LET a == leds_off(w2, led)
                            b == [a EXCEPT !.diag.current_brightness_step_ = 0,
                                           !.diag.current_led_ = U8(@ + 1)]
                        IN IF b.diag.current_led_ >= NO_OF_LEDS
                           THEN [leds_off_all(b) EXCEPT
                                    !.diag.current_state_ = "INTERACTIVE_MODE"]
                           ELSE b
                   ELSE w2
         IN [w3 EXCEPT !.diag.last_update_time_ = w.now]
    ELSE w

(***************************************************************************)
(* PotsAndButtons.  One poll reads the debounced buttons and the three     *)
(* scaled pots; in = [b1, b2, pots, adc, pulse_in] is what the peripherals *)
(* deliver during this update().  (The pot-change log line is left out:    *)
(* it only prints.)                                                        *)
(***************************************************************************)
pots_and_buttons_update(w, in) ==
    [w EXCEPT !.pots_and_buttons_.button1_pressed_ = in.b1,
              !.pots_and_buttons_.button2_pressed_ = in.b2,
              !.pots_and_buttons_.pot_values_ =
                  [k \in 0 .. (NUM_POTS - 1) |-> U16(in.pots[k + 1])]]

get_pot_value(w, pot_index) ==
    IF pot_index < NUM_POTS THEN w.pots_and_buttons_.pot_values_[pot_index] ELSE 0

\* mutant: the division truncates instead of rounding
LedsForPotValue_truncating(pot_value) ==
    LET num_leds == U8((pot_value * 6) \div 127)
    IN IF num_leds > 6 THEN 6 ELSE num_leds

LedsForPotValue(pot_value) ==
    LET num_leds == U8((pot_value * 6 + 63) \div 127)
    IN IF num_leds > 6 THEN 6 ELSE num_leds

map_pot_to_leds(w, pot_index) ==
    IF pot_index >= NUM_POTS THEN 0
    ELSE LedsForPotValue(w.pots_and_buttons_.pot_values_[pot_index])

is_button1_pressed(w) == w.pots_and_buttons_.button1_pressed_
is_button2_pressed(w) == w.pots_and_buttons_.button2_pressed_
is_any_button_pressed(w) ==
    w.pots_and_buttons_.button1_pressed_ \/ w.pots_and_buttons_.button2_pressed_

(***************************************************************************)
(* Inputs                                                                  *)
(***************************************************************************)
\* mutant: the meter state survives a change of input
set_selected_input_keeps_peak(w, selected, print_change) ==
    IF selected # w.inputs_.selected_input_
    THEN LET w1 == [w EXCEPT !.inputs_.selected_input_ = selected,
                             !.inputs_.pulse_state_initialized_ = FALSE]
         IN IF print_change
            THEN Emit(w1, Ev("print_input_selected", SelInt(selected), 0))
            ELSE w1
    ELSE w

set_selected_input(w, selected, print_change) ==
    IF selected # w.inputs_.selected_input_
    THEN LET w1 == [w EXCEPT !.inputs_.selected_input_ = selected,
                             !.inputs_.vu_peak_hold_ = 0,
                             !.inputs_.vu_peak_time_ = w.now,
                             !.inputs_.pulse_state_initialized_ = FALSE]
         IN IF print_change
            THEN Emit(w1, Ev("print_input_selected", SelInt(selected), 0))
            ELSE w1
    ELSE w

\* mutant: the zone boundaries are exclusive
map_pot_to_input_selection_exclusive(pot_value) ==
    IF pot_value = 0 THEN "NONE"
    ELSE IF pot_value < 42 THEN "AUDIO_A"
    ELSE IF pot_value < 84 THEN "AUDIO_B"
    ELSE "PULSE"

\* mutant: the lower half of the range selects AUDIO_A
map_pot_to_input_selection_halves(pot_value) ==
    IF pot_value = 0 THEN "NONE"
    ELSE IF pot_value <= 63 THEN "AUDIO_A"
    ELSE IF pot_value <= 84 THEN "AUDIO_B"
    ELSE "PULSE"

map_pot_to_input_selection(pot_value) ==
    IF pot_value = 0 THEN "NONE"
    ELSE IF pot_value <= 42 THEN "AUDIO_A"
    ELSE IF pot_value <= 84 THEN "AUDIO_B"
    ELSE "PULSE"

\* mutant: a peak on a threshold still counts for the level below
VuLevelOfPeak_exclusive(peak) ==
    IF peak <= 170 THEN 0
    ELSE IF peak <= 510 THEN 1
    ELSE IF peak <= 850 THEN 2
    ELSE IF peak <= 1190 THEN 3
    ELSE IF peak <= 1530 THEN 4
    ELSE IF peak <= 1870 THEN 5
    ELSE 6

VuLevelOfPeak(peak) ==
    IF peak < 170 THEN 0
    ELSE IF peak < 510 THEN 1
    ELSE IF peak < 850 THEN 2
    ELSE IF peak < 1190 THEN 3
    ELSE IF peak < 1530 THEN 4
    ELSE IF peak < 1870 THEN 5
    ELSE 6

Deviation(raw_adc) ==
    LET deviation == raw_adc - VU_CENTER
    IN U16(IF deviation < 0 THEN 0 - deviation ELSE deviation)

\* mutant: the peak is never lowered
calculate_vu_level_sticky(w, raw_adc) ==
    LET current_level == Deviation(raw_adc)
        w1 == IF current_level > w.inputs_.vu_peak_hold_
              THEN [w EXCEPT !.inputs_.vu_peak_hold_ = current_level,
                             !.inputs_.vu_peak_time_ = w.now]
              ELSE w
    IN [w1 EXCEPT !.ret = VuLevelOfPeak(w1.inputs_.vu_peak_hold_)]

\* mutant: the peak follows a lower sample without waiting for the hold time
calculate_vu_level_no_hold(w, raw_adc) ==
    LET current_level == Deviation(raw_adc)
        w1 == IF current_level > w.inputs_.vu_peak_hold_
              THEN [w EXCEPT !.inputs_.vu_peak_hold_ = current_level,
                             !.inputs_.vu_peak_time_ = w.now]
              ELSE [w EXCEPT !.inputs_.vu_peak_hold_ = current_level]
    IN [w1 EXCEPT !.ret = VuLevelOfPeak(w1.inputs_.vu_peak_hold_)]

\* mutant: the peak may fall as soon as the hold time is reached
calculate_vu_level_early_decay(w, raw_adc) ==
    LET current_level == Deviation(raw_adc)
        w1 == IF current_level > w.inputs_.vu_peak_hold_
              THEN [w EXCEPT !.inputs_.vu_peak_hold_ = current_level,
                             !.inputs_.vu_peak_time_ = w.now]
              ELSE LET elapsed_ms == w.now - w.inputs_.vu_peak_time_
                   IN IF elapsed_ms >= VU_PEAK_HOLD_MS
                         /\ w.inputs_.vu_peak_hold_ > current_level
                      THEN [w EXCEPT !.inputs_.vu_peak_hold_ = current_level]
                      ELSE w
    IN [w1 EXCEPT !.ret = VuLevelOfPeak(w1.inputs_.vu_peak_hold_)]

\* returns the level in w.ret
calculate_vu_level(w, raw_adc) ==
    LET current_level == Deviation(raw_adc)
        w1 == IF current_level > w.inputs_.vu_peak_hold_
              THEN [w EXCEPT !.inputs_.vu_peak_hold_ = current_level,
                             !.inputs_.vu_peak_time_ = w.now]
              ELSE LET elapsed_ms == w.now - w.inputs_.vu_peak_time_
                   IN IF elapsed_ms > VU_PEAK_HOLD_MS
                         /\ w.inputs_.vu_peak_hold_ > current_level
                      THEN [w EXCEPT !.inputs_.vu_peak_hold_ = current_level]
                      ELSE w
    IN [w1 EXCEPT !.ret = VuLevelOfPeak(w1.inputs_.vu_peak_hold_)]

\* in.adc is the raw reading of the selected channel; the level is in w.ret
get_vu_meter_level(w, in) ==
    IF w.inputs_.selected_input_ # "AUDIO_A" /\ w.inputs_.selected_input_ # "AUDIO_B"
    THEN [w EXCEPT !.ret = 0]
    ELSE LET w1 == calculate_vu_level(w, in.adc)
         IN Emit(w1, Ev("print_vu", in.adc, w1.ret))

\* the state of the pulse input is in w.ret (0 low, 1 high)
is_pulse_high(w, in) ==
    LET current_state == in.pulse_in
        w1 == IF w.inputs_.selected_input_ = "PULSE"
              THEN IF ~w.inputs_.pulse_state_initialized_
                   THEN Emit([w EXCEPT !.inputs_.last_pulse_state_ = current_state,
                                       !.inputs_.pulse_state_initialized_ = TRUE],
                             Ev("print_pulse_in", BoolInt(current_state), 0))
                   ELSE IF current_state # w.inputs_.last_pulse_state_
                   THEN Emit([w EXCEPT !.inputs_.last_pulse_state_ = current_state],
                             Ev("print_pulse_in", BoolInt(current_state), 1))
                   ELSE w
              ELSE w
    IN [w1 EXCEPT !.ret = BoolInt(current_state)]

(***************************************************************************)
(* Outputs                                                                 *)
(***************************************************************************)
CHANNEL_A == 0
CHANNEL_B == 1

set_voltage(w, channel, voltage) ==
    Emit([w EXCEPT !.hw.voltage[channel] = voltage],
         Ev("set_voltage", channel, voltage))

set_coupling(w, channel, ac) ==
    Emit([w EXCEPT !.hw.coupling[channel] = ac],
         Ev("set_coupling", channel, BoolInt(ac)))

pulse_output_set(w, level) ==
    Emit([w EXCEPT !.hw.pulse_out = level], Ev("pulse_set", BoolInt(level), 0))

\* mutant: the outputs always rest at the DC value
stop_all_outputs_dc_only(w) ==
    LET w1 == set_voltage(w, CHANNEL_A, STOP_VOLTAGE_DC)
        w2 == set_voltage(w1, CHANNEL_B, STOP_VOLTAGE_DC)
        w3 == pulse_output_set(w2, FALSE)
    IN [w3 EXCEPT !.outputs_.pulse_state_ = FALSE]

\* mutant: the digital output is not driven low, only the tracked state is
stop_all_outputs_leaves_pulse(w) ==
    LET stop_voltage == IF w.outputs_.ac_coupled_ THEN STOP_VOLTAGE_AC
                        ELSE STOP_VOLTAGE_DC
        w1 == set_voltage(w, CHANNEL_A, stop_voltage)
        w2 == set_voltage(w1, CHANNEL_B, stop_voltage)
    IN [w2 EXCEPT !.outputs_.pulse_state_ = FALSE]

stop_all_outputs(w) ==
    LET stop_voltage == IF w.outputs_.ac_coupled_ THEN STOP_VOLTAGE_AC
                        ELSE STOP_VOLTAGE_DC
        w1 == set_voltage(w, CHANNEL_A, stop_voltage)
        w2 == set_voltage(w1, CHANNEL_B, stop_voltage)
        w3 == pulse_output_set(w2, FALSE)
    IN [w3 EXCEPT !.outputs_.pulse_state_ = FALSE]

\* mutant: the selection is applied without comparing it with the current one
set_selected_output_unguarded(w, selected, print_change) ==
    LET w1 == stop_all_outputs(w)
        w2 == [w1 EXCEPT !.outputs_.selected_output_ = selected,
                         !.outputs_.waveform_start_time_ = w.now,
                         !.outputs_.last_phase_ms_ = 0,
                         !.outputs_.pulse_state_ = FALSE]
    IN IF print_change
       THEN Emit(w2, Ev("print_output_selected", SelInt(selected), 0))
       ELSE w2

set_selected_output(w, selected, print_change) ==
    IF selected # w.outputs_.selected_output_
    THEN LET w1 == stop_all_outputs(w)
             w2 == [w1 EXCEPT !.outputs_.selected_output_ = selected,
                              !.outputs_.waveform_start_time_ = w.now,
                              !.outputs_.last_phase_ms_ = 0,
                              !.outputs_.pulse_state_ = FALSE]
         IN IF print_change
            THEN Emit(w2, Ev("print_output_selected", SelInt(selected), 0))
            ELSE w2
    ELSE w

map_pot_to_output_selection(pot_value) ==
    IF pot_value = 0 THEN "NONE"
    ELSE IF pot_value <= 42 THEN "AUDIO_A"
    ELSE IF pot_value <= 84 THEN "AUDIO_B"
    ELSE "PULSE"

\* mutant: the channels are rewritten on every call
set_ac_coupling_always_writes(w, use_ac_coupling) ==
    LET w1 == [w EXCEPT !.outputs_.ac_coupled_ = use_ac_coupling]
        w2 == set_coupling(w1, CHANNEL_A, use_ac_coupling)
        w3 == set_coupling(w2, CHANNEL_B, use_ac_coupling)
    IN Emit(w3, Ev("print_coupling", BoolInt(use_ac_coupling), 0))

set_ac_coupling(w, use_ac_coupling) ==
    IF use_ac_coupling # w.outputs_.ac_coupled_
    THEN LET w1 == [w EXCEPT !.outputs_.ac_coupled_ = use_ac_coupling]
             w2 == set_coupling(w1, CHANNEL_A, use_ac_coupling)
             w3 == set_coupling(w2, CHANNEL_B, use_ac_coupling)
         IN Emit(w3, Ev("print_coupling", BoolInt(use_ac_coupling), 0))
    ELSE w

PhaseMs(w) == (w.now - w.outputs_.waveform_start_time_) % WAVEFORM_PERIOD_MS

\* mutant: the falling edge is not taken from the half period
TriangleVoltage_late_fall(phase_ms) ==
    LET voltage == IF phase_ms < HALF_PERIOD_MS THEN phase_ms * 2
                   ELSE MAX_VOLTAGE - phase_ms * 2
    IN IF voltage < MIN_VOLTAGE THEN MIN_VOLTAGE
       ELSE IF voltage > MAX_VOLTAGE THEN MAX_VOLTAGE
       ELSE voltage

\* phase_ms * 0.02 V rising, 10 V - (phase_ms - 500) * 0.02 V falling, clamped
TriangleVoltage(phase_ms) ==
    LET voltage == IF phase_ms < HALF_PERIOD_MS THEN phase_ms * 2
                   ELSE MAX_VOLTAGE - (phase_ms - HALF_PERIOD_MS) * 2
    IN IF voltage < MIN_VOLTAGE THEN MIN_VOLTAGE
       ELSE IF voltage > MAX_VOLTAGE THEN MAX_VOLTAGE
       ELSE voltage

\* phase_ms - last_voltage_print_ms_ >= 100 on uint32_t: a negative difference
\* wraps to a value above 2^31
PrintIntervalElapsed(phase_ms, last_print_ms) ==
    phase_ms - last_print_ms < 0
    \/ phase_ms - last_print_ms >= VOLTAGE_PRINT_INTERVAL_MS

\* mutant: the render writes on every call
generate_triangle_wave_no_skip(w, channel) ==
    LET phase_ms == PhaseMs(w)
        w0 == Emit(w, Ev("render_triangle", channel, phase_ms))
        w1 == [w0 EXCEPT !.outputs_.last_phase_ms_ = phase_ms]
        w2 == set_voltage(w1, channel, TriangleVoltage(phase_ms))
    IN IF PrintIntervalElapsed(phase_ms, w2.outputs_.last_voltage_print_ms_)
       THEN Emit([w2 EXCEPT !.outputs_.last_voltage_print_ms_ = phase_ms],
                 Ev("print_voltage", channel, phase_ms))
       ELSE w2

\* the call itself is recorded first, then what it writes
generate_triangle_wave(w, channel) ==
    LET phase_ms == PhaseMs(w)
        w0 == Emit(w, Ev("render_triangle", channel, phase_ms))
    IN
    IF phase_ms = w.outputs_.last_phase_ms_ THEN w0
    ELSE LET w1 == [w0 EXCEPT !.outputs_.last_phase_ms_ = phase_ms]
             w2 == set_voltage(w1, channel, TriangleVoltage(phase_ms))
         IN IF PrintIntervalElapsed(phase_ms, w2.outputs_.last_voltage_print_ms_)
            THEN Emit([w2 EXCEPT !.outputs_.last_voltage_print_ms_ = phase_ms],
                      Ev("print_voltage", channel, phase_ms))
            ELSE w2

\* mutant: the level does not follow the phase
SquareLevel_always_high(phase_ms) == TRUE

\* mutant: the high half includes phase 500
SquareLevel_inclusive(phase_ms) == phase_ms <= HALF_PERIOD_MS

SquareLevel(phase_ms) == phase_ms < HALF_PERIOD_MS

\* mutant: the digital output is written on every render
generate_square_wave_always_writes(w) ==
    LET phase_ms == PhaseMs(w)
        new_state == SquareLevel(phase_ms)
        w0 == Emit(w, Ev("render_square", phase_ms, 0))
    IN Emit(pulse_output_set([w0 EXCEPT !.outputs_.pulse_state_ = new_state],
                             new_state),
            Ev("print_pulse_out", BoolInt(new_state), phase_ms))

generate_square_wave(w) ==
    LET phase_ms == PhaseMs(w)
        new_state == SquareLevel(phase_ms)
        w0 == Emit(w, Ev("render_square", phase_ms, 0))
    IN IF new_state # w.outputs_.pulse_state_
       THEN Emit(pulse_output_set([w0 EXCEPT !.outputs_.pulse_state_ = new_state],
                                  new_state),
                 Ev("print_pulse_out", BoolInt(new_state), phase_ms))
       ELSE w0

outputs_update(w) ==
    CASE w.outputs_.selected_output_ = "NONE" -> w
      [] w.outputs_.selected_output_ = "AUDIO_A" -> generate_triangle_wave(w, CHANNEL_A)
      [] w.outputs_.selected_output_ = "AUDIO_B" -> generate_triangle_wave(w, CHANNEL_B)
      [] w.outputs_.selected_output_ = "PULSE" -> generate_square_wave(w)

(***************************************************************************)
(* Diagnostics: interactive mode                                           *)
(***************************************************************************)
\* mutant: the bar always follows the first pot
update_leds_from_pots_and_buttons_first_pot(w) ==
    IF is_any_button_pressed(w)
    THEN IF ~w.diag.last_leds_all_on_
         THEN [leds_on_all(w) EXCEPT !.diag.last_leds_all_on_ = TRUE,
                                     !.diag.last_num_leds_ = LAST_NUM_LEDS_INVALID]
         ELSE w
    ELSE LET num_leds == map_pot_to_leds(w, 0)
         IN IF num_leds # w.diag.last_num_leds_ \/ w.diag.last_leds_all_on_
            THEN [leds_bar_from(w, num_leds, 0) EXCEPT
                     !.diag.last_num_leds_ = num_leds,
                     !.diag.last_leds_all_on_ = FALSE]
            ELSE w

update_leds_from_pots_and_buttons(w) ==
    IF is_any_button_pressed(w)
    THEN IF ~w.diag.last_leds_all_on_
         THEN [leds_on_all(w) EXCEPT !.diag.last_leds_all_on_ = TRUE,
                                     !.diag.last_num_leds_ = LAST_NUM_LEDS_INVALID]
         ELSE w
    ELSE LET v0 == get_pot_value(w, 0)
             v1 == get_pot_value(w, 1)
             v2 == get_pot_value(w, 2)
             \* the loop keeps the first strictly greater value, starting from 0
             m0 == IF v0 > 0 THEN v0 ELSE 0
             i1 == IF v1 > m0 THEN 1 ELSE 0
             m1 == IF v1 > m0 THEN v1 ELSE m0
             max_pot_index == IF v2 > m1 THEN 2 ELSE i1
             num_leds == map_pot_to_leds(w, max_pot_index)
         IN IF num_leds # w.diag.last_num_leds_ \/ w.diag.last_leds_all_on_
            THEN [leds_bar_from(w, num_leds, 0) EXCEPT
                     !.diag.last_num_leds_ = num_leds,
                     !.diag.last_leds_all_on_ = FALSE]
            ELSE w

\* mutant: the meter and the pulse state are drawn in every cycle
handle_input_testing_always_draws(w, in) ==
    LET selected == w.inputs_.selected_input_ IN
    IF selected = "AUDIO_A" \/ selected = "AUDIO_B"
    THEN LET w1 == get_vu_meter_level(w, in)
             vu_level == w1.ret
         IN [leds_bar_from(w1, vu_level, 0) EXCEPT
                !.diag.last_num_leds_ = vu_level,
                !.diag.last_leds_all_on_ = FALSE]
    ELSE IF selected = "PULSE"
    THEN LET w1 == is_pulse_high(w, in)
             pulse_high == (w1.ret = 1)
         IN IF pulse_high
            THEN [leds_on_all(w1) EXCEPT
                     !.diag.last_leds_all_on_ = TRUE,
                     !.diag.last_num_leds_ = LAST_NUM_LEDS_INVALID]
            ELSE [leds_off_all(w1) EXCEPT
                     !.diag.last_leds_all_on_ = FALSE,
                     !.diag.last_num_leds_ = 0]
    ELSE w

handle_input_testing(w, in) ==
    LET selected == w.inputs_.selected_input_ IN
    IF selected = "AUDIO_A" \/ selected = "AUDIO_B"
    THEN LET w1 == get_vu_meter_level(w, in)
             vu_level == w1.ret
         IN IF vu_level # w1.diag.last_num_leds_ \/ w1.diag.last_leds_all_on_
            THEN [leds_bar_from(w1, vu_level, 0) EXCEPT
                     !.diag.last_num_leds_ = vu_level,
                     !.diag.last_leds_all_on_ = FALSE]
            ELSE w1
    ELSE IF selected = "PULSE"
    THEN LET w1 == is_pulse_high(w, in)
             pulse_high == (w1.ret = 1)
         IN IF pulse_high # w1.diag.last_leds_all_on_
            THEN IF pulse_high
                 THEN [leds_on_all(w1) EXCEPT
                          !.diag.last_leds_all_on_ = TRUE,
                          !.diag.last_num_leds_ = LAST_NUM_LEDS_INVALID]
                 ELSE [leds_off_all(w1) EXCEPT
                          !.diag.last_leds_all_on_ = FALSE,
                          !.diag.last_num_leds_ = 0]
            ELSE w1
    ELSE w

update_coupling_from_pot(w) ==
    set_ac_coupling(w, get_pot_value(w, 2) >= COUPLING_MIDPOINT)

StatusLed(w, i, lit) == IF lit THEN leds_on(w, i) ELSE leds_off(w, i)

show_status_display(w) ==
    LET selected_input == w.inputs_.selected_input_
        selected_output == w.outputs_.selected_output_
        w0 == StatusLed(w, 0, selected_input = "AUDIO_A")
        w1 == StatusLed(w0, 1, selected_input = "AUDIO_B")
        w2 == StatusLed(w1, 2, selected_input = "PULSE")
        w3 == StatusLed(w2, 3, selected_output = "AUDIO_A")
        w4 == StatusLed(w3, 4, selected_output = "AUDIO_B")
    IN StatusLed(w4, 5, selected_output = "PULSE")

\* mutant: the selectors are tried in priority order (else-if)
selection_mode_priority(w) ==
    LET pot0 == get_pot_value(w, 0)
        pot1 == get_pot_value(w, 1)
        pot2 == get_pot_value(w, 2)
        w1 == IF pot0 > 0
              THEN set_selected_input(w, map_pot_to_input_selection(pot0), FALSE)
              ELSE IF pot1 > 0
              THEN set_selected_output(w, map_pot_to_output_selection(pot1), FALSE)
              ELSE IF pot2 > COUPLING_NOISE_THRESHOLD
              THEN update_coupling_from_pot(w)
              ELSE w
    IN [show_status_display(w1) EXCEPT !.diag.both_buttons_held_ = TRUE]

\* mutant: the status display is drawn before the selectors are applied
selection_mode_stale_status(w) ==
    LET pot0 == get_pot_value(w, 0)
        pot1 == get_pot_value(w, 1)
        pot2 == get_pot_value(w, 2)
        w0 == show_status_display(w)
        w1 == IF pot0 > 0
              THEN set_selected_input(w0, map_pot_to_input_selection(pot0), FALSE)
              ELSE w0
        w2 == IF pot1 > 0
              THEN set_selected_output(w1, map_pot_to_output_selection(pot1), FALSE)
              ELSE w1
        w3 == IF pot2 > COUPLING_NOISE_THRESHOLD
              THEN update_coupling_from_pot(w2)
              ELSE w2
    IN [w3 EXCEPT !.diag.both_buttons_held_ = TRUE]

\* mutant: the setters are called with print_change left at its default (true)
selection_mode_prints(w) ==
    LET pot0 == get_pot_value(w, 0)
        pot1 == get_pot_value(w, 1)
        pot2 == get_pot_value(w, 2)
        w1 == IF pot0 > 0
              THEN set_selected_input(w, map_pot_to_input_selection(pot0), TRUE)
              ELSE w
        w2 == IF pot1 > 0
              THEN set_selected_output(w1, map_pot_to_output_selection(pot1), TRUE)
              ELSE w1
        w3 == IF pot2 > COUPLING_NOISE_THRESHOLD
              THEN update_coupling_from_pot(w2)
              ELSE w2
    IN [show_status_display(w3) EXCEPT !.diag.both_buttons_held_ = TRUE]

\* mutant: a selector at 0 is applied as well
selection_mode_applies_zero(w) ==
    LET pot0 == get_pot_value(w, 0)
        pot1 == get_pot_value(w, 1)
        pot2 == get_pot_value(w, 2)
        w1 == set_selected_input(w, map_pot_to_input_selection(pot0), FALSE)
        w2 == set_selected_output(w1, map_pot_to_output_selection(pot1), FALSE)
        w3 == IF pot2 > COUPLING_NOISE_THRESHOLD
              THEN update_coupling_from_pot(w2)
              ELSE w2
    IN [show_status_display(w3) EXCEPT !.diag.both_buttons_held_ = TRUE]

\* the both-buttons-held branch of interactive_mode
selection_mode(w) ==
    LET pot0 == get_pot_value(w, 0)
        pot1 == get_pot_value(w, 1)
        pot2 == get_pot_value(w, 2)
        w1 == IF pot0 > 0
              THEN set_selected_input(w, map_pot_to_input_selection(pot0), FALSE)
              ELSE w
        w2 == IF pot1 > 0
              THEN set_selected_output(w1, map_pot_to_output_selection(pot1), FALSE)
              ELSE w1
        w3 == IF pot2 > COUPLING_NOISE_THRESHOLD
              THEN update_coupling_from_pot(w2)
              ELSE w2
    IN [show_status_display(w3) EXCEPT !.diag.both_buttons_held_ = TRUE]

\* mutant: the held flag is not cleared on release
release_edge_keeps_flag(w) ==
    IF w.diag.both_buttons_held_
    THEN LET w1 == Emit(w, Ev("print_config",
                              SelInt(w.inputs_.selected_input_),
                              SelInt(w.outputs_.selected_output_)))
         IN [leds_off_all(w1) EXCEPT !.diag.last_num_leds_ = 0,
                                     !.diag.last_leds_all_on_ = FALSE]
    ELSE w

\* mutant: the display is cleared but the last rendered state is kept
release_edge_no_reset(w) ==
    IF w.diag.both_buttons_held_
    THEN LET w1 == Emit(w, Ev("print_config",
                              SelInt(w.inputs_.selected_input_),
                              SelInt(w.outputs_.selected_output_)))
         IN [leds_off_all(w1) EXCEPT !.diag.both_buttons_held_ = FALSE]
    ELSE w

\* the release edge: configuration summary, display cleared
release_edge(w) ==
    IF w.diag.both_buttons_held_
    THEN LET w1 == Emit(w, Ev("print_config",
                              SelInt(w.inputs_.selected_input_),
                              SelInt(w.outputs_.selected_output_)))
         IN [leds_off_all(w1) EXCEPT !.diag.last_num_leds_ = 0,
                                     !.diag.last_leds_all_on_ = FALSE,
                                     !.diag.both_buttons_held_ = FALSE]
    ELSE w

\* the not-both-held branch of interactive_mode
normal_mode(w, in) ==
    LET w1 == release_edge(w)
    IN IF w1.inputs_.selected_input_ # "NONE"
       THEN handle_input_testing(w1, in)
       ELSE update_leds_from_pots_and_buttons(w1)

\* mutant: selection mode is entered when either button is pressed
interactive_mode_either_button(w, in) ==
    LET w1 == pots_and_buttons_update(w, in)
        w2 == outputs_update(w1)
        both_held == is_button1_pressed(w2) \/ is_button2_pressed(w2)
    IN IF both_held THEN selection_mode(w2) ELSE normal_mode(w2, in)

\* mutant: the waveform is rendered only while the buttons are not both held
interactive_mode_renders_when_idle(w, in) ==
    LET w1 == pots_and_buttons_update(w, in)
        both_held == is_button1_pressed(w1) /\ is_button2_pressed(w1)
    IN IF both_held THEN selection_mode(w1) ELSE normal_mode(outputs_update(w1), in)

interactive_mode(w, in) ==
    LET w1 == pots_and_buttons_update(w, in)
        w2 == outputs_update(w1)
        both_held == is_button1_pressed(w2) /\ is_button2_pressed(w2)
    IN IF both_held THEN selection_mode(w2) ELSE normal_mode(w2, in)

\* mutant: the pots and buttons are polled before the state is dispatched
update_polls_first(w, in) ==
    LET w1 == pots_and_buttons_update(w, in) IN
    CASE w1.diag.current_state_ = "LED_STARTUP_ANIMATION" -> test_led_startup_animation(w1)
      [] w1.diag.current_state_ = "LED_BRIGHTNESS_TEST" -> test_led_brightness(w1)
      [] w1.diag.current_state_ = "INTERACTIVE_MODE" -> interactive_mode(w1, in)

update(w, in) ==
    CASE w.diag.current_state_ = "LED_STARTUP_ANIMATION" -> test_led_startup_animation(w)
      [] w.diag.current_state_ = "LED_BRIGHTNESS_TEST" -> test_led_brightness(w)
      [] w.diag.current_state_ = "INTERACTIVE_MODE" -> interactive_mode(w, in)

(***************************************************************************)
(* The run: construction + init(), then update() forever                   *)
(***************************************************************************)
World(t) ==
    [now |-> t, diag |-> diag, pots_and_buttons_ |-> pots_and_buttons_,
     inputs_ |-> inputs_, outputs_ |-> outputs_, hw |-> hw, ev |-> <<>>, ret |-> 0]

NoInput == [b1 |-> FALSE, b2 |-> FALSE, pots |-> <<0, 0, 0>>, adc |-> VU_CENTER,
            pulse_in |-> FALSE]

BothHeld(w) == is_button1_pressed(w) /\ is_button2_pressed(w)

\* what an observer of the run records about the update() that led to w
Observe(w, op) ==
    [op |-> op,
     anim_steps |-> hist.anim_steps + CountOp(w.ev, "startup_animation"),
     bright_steps |-> hist.bright_steps + CountOp(w.ev, "set_brightness"),
     bright_entered |-> hist.bright_entered +
         (IF diag.current_state_ # "LED_BRIGHTNESS_TEST"
             /\ w.diag.current_state_ = "LED_BRIGHTNESS_TEST" THEN 1 ELSE 0),
     bright_exited |-> hist.bright_exited +
         (IF diag.current_state_ = "LED_BRIGHTNESS_TEST"
             /\ w.diag.current_state_ # "LED_BRIGHTNESS_TEST" THEN 1 ELSE 0),
     last_step |-> IF HasOp(w.ev, "startup_animation") \/ HasOp(w.ev, "set_brightness")
                   THEN w.now ELSE hist.last_step,
     step_gap |-> IF HasOp(w.ev, "startup_animation") \/ HasOp(w.ev, "set_brightness")
                  THEN w.now - hist.last_step ELSE hist.step_gap,
     pre_state |-> diag.current_state_,
     pre_input |-> inputs_.selected_input_,
     pre_output |-> outputs_.selected_output_,
     peak_since_switch |->
         IF w.inputs_.selected_input_ # inputs_.selected_input_ THEN 0
         ELSE MaxOf({hist.peak_since_switch}
                    \cup {Deviation(w.ev[k].a) :
                             k \in {j \in 1 .. Len(w.ev) : w.ev[j].op = "print_vu"}}),
     peak_at_switch |->
         IF w.inputs_.selected_input_ # inputs_.selected_input_
         THEN inputs_.vu_peak_hold_ ELSE hist.peak_at_switch,
     pre_pulse_out |-> hw.pulse_out,
     sq_period |->
         IF w.outputs_.selected_output_ # outputs_.selected_output_ THEN 0
         ELSE IF HasOp(w.ev, "print_pulse_out")
         THEN (w.now - w.outputs_.waveform_start_time_) \div WAVEFORM_PERIOD_MS
         ELSE hist.sq_period,
     sq_writes |->
         IF w.outputs_.selected_output_ # outputs_.selected_output_ THEN 0
         ELSE IF HasOp(w.ev, "print_pulse_out")
         THEN IF (w.now - w.outputs_.waveform_start_time_) \div WAVEFORM_PERIOD_MS
                    = hist.sq_period
              THEN hist.sq_writes + 1 ELSE 1
         ELSE hist.sq_writes,
     last_tri_write |->
         IF w.outputs_.selected_output_ # outputs_.selected_output_ THEN NoTime
         ELSE IF \E k \in 1 .. (Len(w.ev) - 1) :
                    w.ev[k].op = "render_triangle" /\ w.ev[k + 1].op = "set_voltage"
         THEN w.now ELSE hist.last_tri_write,
     prev_held |-> hist.op = "interactive" /\ BothHeld(World(now)),
     ever_held |-> hist.ever_held \/ (op = "interactive" /\ BothHeld(w))]

Commit(w, op) ==
    /\ now' = w.now
    /\ diag' = w.diag
    /\ pots_and_buttons_' = w.pots_and_buttons_
    /\ inputs_' = w.inputs_
    /\ outputs_' = w.outputs_
    /\ hw' = w.hw
    /\ ev' = w.ev
    /\ hist' = Observe(w, op)
    /\ UNCHANGED fn

InitProgram ==
    /\ now = 0
    /\ diag = [current_state_ |-> "LED_STARTUP_ANIMATION",
               current_led_ |-> 0,
               current_brightness_step_ |-> 0,
               last_update_time_ |-> 0,
               startup_animation_count_ |-> 0,
               both_buttons_held_ |-> FALSE,
               last_num_leds_ |-> LAST_NUM_LEDS_INVALID,
               last_leds_all_on_ |-> FALSE]
    /\ pots_and_buttons_ = [button1_pressed_ |-> FALSE,
                            button2_pressed_ |-> FALSE,
                            pot_values_ |-> [k \in 0 .. (NUM_POTS - 1) |-> 0]]
    /\ inputs_ = [selected_input_ |-> "NONE",
                  vu_peak_hold_ |-> 0,
                  vu_peak_time_ |-> 0,
                  last_pulse_state_ |-> FALSE,
                  pulse_state_initialized_ |-> FALSE]
    /\ outputs_ = [selected_output_ |-> "NONE",
                   ac_coupled_ |-> FALSE,
                   waveform_start_time_ |-> 0,
                   last_phase_ms_ |-> 0,
                   pulse_state_ |-> FALSE,
                   last_voltage_print_ms_ |-> 0]
    /\ hw = [leds |-> AllOff,
             voltage |-> [c \in {CHANNEL_A, CHANNEL_B} |-> NoVoltage],
             coupling |-> [c \in {CHANNEL_A, CHANNEL_B} |-> FALSE],
             pulse_out |-> FALSE]
    /\ ev = <<>>
    /\ hist = [op |-> "init", anim_steps |-> 0, bright_steps |-> 0,
               bright_entered |-> 0, bright_exited |-> 0,
               last_step |-> 0, step_gap |-> 0,
               pre_state |-> "LED_STARTUP_ANIMATION",
               pre_input |-> "NONE", pre_output |-> "NONE",
               peak_since_switch |-> 0, peak_at_switch |-> 0,
               pre_pulse_out |-> FALSE, sq_period |-> 0, sq_writes |-> 0,
               last_tri_write |-> NoTime,
               prev_held |-> FALSE, ever_held |-> FALSE]

FnIdle == [arg |-> 0, applied |-> FALSE, res |-> <<>>]

Init == InitProgram /\ fn = FnIdle

(***************************************************************************)
(* Bounds and inputs of the runs                                           *)
(***************************************************************************)
MaxHalfSeconds == 37             \* main run: the clock stops at 18.5 s
MaxQuarterSecondsStartup == 108  \* startup run: the clock stops at 27 s

MaxMeterMs == 152                \* meter run: interactive cycles for 152 ms

MaxWaveMs == 1250                \* waveform run: interactive cycles for 1.25 s
MaxToggleQuarterSeconds == 10    \* toggle run: interactive cycles for 2.5 s

MaxPulseMs == 1010               \* pulse run: interactive cycles for 1.01 s

MaxDisplayMs == 202              \* display run: interactive cycles for 202 ms

MainClockLimit == MaxHalfSeconds * 500
StartupClockLimit == MaxQuarterSecondsStartup * 250

ClockOk(t, limit_ms) == t <= limit_ms

Deltas == {0, 500}
DeltasStartup == {0, 250, 500}

Buttons == {<<FALSE, FALSE>>, <<TRUE, FALSE>>, <<TRUE, TRUE>>}
PotTriples == {<<0, 0, 0>>, <<50, 0, 0>>, <<0, 50, 5>>, <<10, 80, 5>>,
               <<43, 85, 64>>, <<127, 42, 6>>}

InputsOf(B, P, A, Q) ==
    {[b1 |-> b[1], b2 |-> b[2], pots |-> p, adc |-> a, pulse_in |-> q] :
        b \in B, p \in P, a \in A, q \in Q}

MainInputs == InputsOf(Buttons, PotTriples, {4095}, {TRUE})
StartupInputs == InputsOf({<<FALSE, FALSE>>, <<TRUE, FALSE>>},
                          {<<0, 0, 0>>, <<10, 80, 5>>}, {4095}, {TRUE})

(***************************************************************************)
(* Actions: one update() call in each controller state                     *)
(***************************************************************************)
\* what the peripherals would deliver while the LED test runs
SelfTestInputs ==
    {NoInput,
     [b1 |-> TRUE, b2 |-> TRUE, pots |-> <<10, 80, 5>>, adc |-> 4095,
      pulse_in |-> TRUE]}

StartupAnimationStep(D, limit_ms) ==
    /\ diag.current_state_ = "LED_STARTUP_ANIMATION"
    /\ \E d \in D, in \in SelfTestInputs :
          /\ ClockOk(now + d, limit_ms)
          /\ Commit(update(World(now + d), in), "startup")

BrightnessStep(D, limit_ms) ==
    /\ diag.current_state_ = "LED_BRIGHTNESS_TEST"
    /\ \E d \in D, in \in SelfTestInputs :
          /\ ClockOk(now + d, limit_ms)
          /\ Commit(update(World(now + d), in), "brightness")

InteractiveCycle(D, limit_ms, I) ==
    /\ diag.current_state_ = "INTERACTIVE_MODE"
    /\ \E d \in D, in \in I :
          /\ ClockOk(now + d, limit_ms)
          /\ Commit(update(World(now + d), in), "interactive")

\* the main run: coarse clock through the LED test, then operator input
Next ==
    \/ StartupAnimationStep(Deltas, MainClockLimit)
    \/ BrightnessStep(Deltas, MainClockLimit)
    \/ InteractiveCycle(Deltas, MainClockLimit, MainInputs)

Spec == Init /\ [][Next]_vars

\* the startup run: finer clock through the LED test
NextStartup ==
    \/ StartupAnimationStep(DeltasStartup, StartupClockLimit)
    \/ BrightnessStep(DeltasStartup, StartupClockLimit)
    \/ InteractiveCycle(DeltasStartup, StartupClockLimit, StartupInputs)

SpecStartup == Init /\ [][NextStartup]_vars

\* the meter run: the LED test on the coarse clock, then interactive cycles 0,
\* 50 or 51 ms apart with varied samples on the selected input
SelfTestMs == STARTUP_ANIMATION_CYCLES * STARTUP_ANIMATION_DELAY
              + NO_OF_LEDS * NUM_BRIGHTNESS_LEVELS * BRIGHTNESS_TEST_DELAY

MeterClockLimit == SelfTestMs + MaxMeterMs

DeltasSelfTest == {500}
DeltasMeter == {0, 50, 51}

\* held cycles turn the selectors; the other cycles deliver the samples
MeterInputs ==
    InputsOf({<<TRUE, TRUE>>}, {<<10, 42, 0>>, <<50, 85, 0>>, <<100, 0, 0>>},
             {VU_CENTER}, {FALSE})
    \cup InputsOf({<<FALSE, FALSE>>}, {<<0, 0, 0>>}, {2048, 2600, 4095}, {TRUE})

NextMeter ==
    \/ StartupAnimationStep(DeltasSelfTest, MeterClockLimit)
    \/ BrightnessStep(DeltasSelfTest, MeterClockLimit)
    \/ InteractiveCycle(DeltasMeter, MeterClockLimit, MeterInputs)

SpecMeter == Init /\ [][NextMeter]_vars

\* the waveform run: the LED test on the coarse clock, then interactive cycles
\* 0, 249, 250 or 500 ms apart in which the output selector is turned
WaveClockLimit == SelfTestMs + MaxWaveMs

DeltasWave == {0, 249, 250, 500}

WaveInputs ==
    InputsOf({<<TRUE, TRUE>>}, {<<0, 85, 0>>, <<0, 42, 0>>}, {VU_CENTER}, {FALSE})
    \cup InputsOf({<<FALSE, FALSE>>}, {<<0, 0, 0>>}, {VU_CENTER}, {FALSE})

NextWave ==
    \/ StartupAnimationStep(DeltasSelfTest, WaveClockLimit)
    \/ BrightnessStep(DeltasSelfTest, WaveClockLimit)
    \/ InteractiveCycle(DeltasWave, WaveClockLimit, WaveInputs)

SpecWave == Init /\ [][NextWave]_vars

\* the pulse run: the LED test on the coarse clock, then PULSE is selected in
\* the first interactive cycle and the cycles follow each other 0 or 1 ms apart
PulseClockLimit == SelfTestMs + MaxPulseMs

DeltasPulse == {0, 1}

PulseInputs == InputsOf({<<TRUE, TRUE>>}, {<<0, 85, 0>>}, {VU_CENTER}, {FALSE})

NextPulse ==
    \/ StartupAnimationStep(DeltasSelfTest, PulseClockLimit)
    \/ BrightnessStep(DeltasSelfTest, PulseClockLimit)
    \/ InteractiveCycle(DeltasPulse, PulseClockLimit, PulseInputs)

SpecPulse == Init /\ [][NextPulse]_vars

\* the toggle run: as the waveform run, on a 250 ms grid, with the clock
\* advancing: main()'s loop keeps calling update(), and the clock has risen by
\* at most 500 ms between two calls
ToggleClockLimit == SelfTestMs + MaxToggleQuarterSeconds * 250

DeltasToggle == {0, 250, 500}

NextToggle ==
    \/ StartupAnimationStep(DeltasSelfTest, ToggleClockLimit)
    \/ BrightnessStep(DeltasSelfTest, ToggleClockLimit)
    \/ InteractiveCycle(DeltasToggle, ToggleClockLimit, WaveInputs)

SpecToggle == Init /\ [][NextToggle]_vars

\* an interactive cycle of the toggle run that reads a later clock
ToggleCycleAdvances ==
    /\ diag.current_state_ = "INTERACTIVE_MODE"
    /\ \E d \in DeltasToggle \ {0} :
          /\ ClockOk(now + d, ToggleClockLimit)
          /\ now' = now + d

LiveToggle == SpecToggle /\ WF_now(ToggleCycleAdvances)

\* the display run: the LED test on the coarse clock, then interactive cycles 0
\* or 101 ms apart with buttons, pots, samples and pulse level varied
DisplayClockLimit == SelfTestMs + MaxDisplayMs

DeltasDisplay == {0, 101}

DisplayInputs ==
    InputsOf({<<TRUE, TRUE>>}, {<<10, 0, 0>>, <<100, 0, 0>>}, {VU_CENTER}, {FALSE})
    \cup InputsOf({<<FALSE, FALSE>>, <<FALSE, TRUE>>},
                  {<<0, 0, 0>>, <<10, 80, 5>>, <<90, 80, 90>>}, {VU_CENTER}, {FALSE})
    \cup InputsOf({<<FALSE, FALSE>>, <<FALSE, TRUE>>},
                  {<<0, 0, 0>>, <<10, 80, 5>>, <<90, 80, 90>>}, {4095}, {TRUE})

NextDisplay ==
    \/ StartupAnimationStep(DeltasSelfTest, DisplayClockLimit)
    \/ BrightnessStep(DeltasSelfTest, DisplayClockLimit)
    \/ InteractiveCycle(DeltasDisplay, DisplayClockLimit, DisplayInputs)

SpecDisplay == Init /\ [][NextDisplay]_vars

(***************************************************************************)
(* The selection mappers applied to every pot value                        *)
(***************************************************************************)
InitMap ==
    /\ InitProgram
    /\ fn \in [arg : 0 .. POT_MAX, applied : {FALSE}, res : {<<>>}]

ApplySelectionMappers ==
    /\ ~fn.applied
    /\ fn' = [fn EXCEPT !.applied = TRUE,
                        !.res = <<map_pot_to_input_selection(fn.arg),
                                  map_pot_to_output_selection(fn.arg)>>]
    /\ UNCHANGED <<now, diag, pots_and_buttons_, inputs_, outputs_, hw, ev, hist>>

NextMap == ApplySelectionMappers

SpecMap == InitMap /\ [][NextMap]_vars

(***************************************************************************)
(* The triangle render applied at every phase of the period: channel A was *)
(* selected at the end of the LED test, fn.arg[1] ms have passed since and *)
(* the last rendered phase is fn.arg[2]                                    *)
(***************************************************************************)
Phases == 0 .. (WAVEFORM_PERIOD_MS - 1)

InitTriangle ==
    /\ InitProgram
    /\ fn \in [arg : Phases \X {0, WAVEFORM_PERIOD_MS - 1}, applied : {FALSE},
                res : {<<>>}]

\* the voltages a sequence of events writes to a channel
RECURSIVE VoltagesWritten(_, _)
VoltagesWritten(s, channel) ==
    IF s = <<>> THEN <<>>
    ELSE IF Head(s).op = "set_voltage" /\ Head(s).a = channel
    THEN <<Head(s).b>> \o VoltagesWritten(Tail(s), channel)
    ELSE VoltagesWritten(Tail(s), channel)

ApplyTriangle ==
    /\ ~fn.applied
    /\ LET w == [World(SelfTestMs + fn.arg[1]) EXCEPT
                    !.outputs_.selected_output_ = "AUDIO_A",
                    !.outputs_.waveform_start_time_ = SelfTestMs,
                    !.outputs_.last_phase_ms_ = fn.arg[2]]
       IN fn' = [fn EXCEPT !.applied = TRUE,
                           !.res = VoltagesWritten(outputs_update(w).ev, CHANNEL_A)]
    /\ UNCHANGED <<now, diag, pots_and_buttons_, inputs_, outputs_, hw, ev, hist>>

NextTriangle == ApplyTriangle

SpecTriangle == InitTriangle /\ [][NextTriangle]_vars

(***************************************************************************)
(* The audio output modes of the newer Outputs (declared in outputs.h:      *)
(* AudioOutputMode, set_audio_output_mode).  Mode 0 is the DC triangle,     *)
(* mode 1 the AC triangle, modes 2..12 are Fixed 0 V .. Fixed 10 V.         *)
(***************************************************************************)
AudioOutputModes == 0 .. 12
kAcTriangle == 1
kFixed0V == 2

IsFixedMode(mode) == mode >= kFixed0V

FixedVoltage(mode) == (mode - kFixed0V) * 100

set_audio_output_mode(w, mode) == set_ac_coupling(w, mode = kAcTriangle)

\* mutant: a fixed mode still renders the ramp
render_audio_output_ramp_only(w, channel, mode) == generate_triangle_wave(w, channel)

render_audio_output(w, channel, mode) ==
    IF IsFixedMode(mode)
    THEN set_voltage(Emit(w, Ev("render_fixed", channel, mode)), channel,
                     FixedVoltage(mode))
    ELSE generate_triangle_wave(w, channel)

ChannelOf(selected) == IF selected = "AUDIO_A" THEN CHANNEL_A ELSE CHANNEL_B

ModePhases == {0, 1, 250, 499, 500, 750, 999}

\* fn.arg = <<mode, phase, selected output, coupling flag before>>
InitOutputMode ==
    /\ InitProgram
    /\ fn \in [arg : AudioOutputModes \X ModePhases \X {"AUDIO_A", "AUDIO_B"}
                          \X BOOLEAN,
                applied : {FALSE}, res : {<<>>}]

\* res = <<voltages written to the selected channel, to the other channel,
\*         coupling flag, hardware coupling of A, of B>>
ApplyOutputMode ==
    /\ ~fn.applied
    /\ LET c == ChannelOf(fn.arg[3])
           o == IF c = CHANNEL_A THEN CHANNEL_B ELSE CHANNEL_A
           w == [World(SelfTestMs + fn.arg[2]) EXCEPT
                    !.outputs_.selected_output_ = fn.arg[3],
                    !.outputs_.waveform_start_time_ = SelfTestMs,
                    !.outputs_.last_phase_ms_ = WAVEFORM_PERIOD_MS - 2,
                    !.outputs_.ac_coupled_ = fn.arg[4],
                    !.hw.coupling = [x \in {CHANNEL_A, CHANNEL_B} |-> fn.arg[4]]]
           r == render_audio_output(set_audio_output_mode(w, fn.arg[1]), c,
                                    fn.arg[1])
       IN fn' = [fn EXCEPT !.applied = TRUE,
                           !.res = <<VoltagesWritten(r.ev, c), VoltagesWritten(r.ev, o),
                                     r.outputs_.ac_coupled_,
                                     r.hw.coupling[CHANNEL_A],
                                     r.hw.coupling[CHANNEL_B]>>]
    /\ UNCHANGED <<now, diag, pots_and_buttons_, inputs_, outputs_, hw, ev, hist>>

NextOutputMode == ApplyOutputMode

SpecOutputMode == InitOutputMode /\ [][NextOutputMode]_vars

(***************************************************************************)
(* The pot accessors and the selection mappers over the whole range of the *)
(* cached uint16_t value and of the uint8_t pot index                      *)
(***************************************************************************)
UINT16_MAX == 65535
UINT8_MAX == 255

\* fn.arg = <<cached value of every pot, pot index asked for>>
InitPotRange ==
    /\ InitProgram
    /\ fn \in [arg : ((0 .. UINT16_MAX) \X {0})
                      \cup ({0, POT_MAX, UINT16_MAX} \X (1 .. UINT8_MAX)),
                applied : {FALSE}, res : {<<>>}]

\* res = <<map_pot_to_leds, get_pot_value, input selection, output selection>>
ApplyPotRange ==
    /\ ~fn.applied
    /\ LET w == [World(SelfTestMs) EXCEPT
                    !.pots_and_buttons_.pot_values_ = [i \in 0 .. 2 |-> fn.arg[1]]]
       IN fn' = [fn EXCEPT !.applied = TRUE,
                           !.res = <<map_pot_to_leds(w, fn.arg[2]),
                                     get_pot_value(w, fn.arg[2]),
                                     map_pot_to_input_selection(fn.arg[1]),
                                     map_pot_to_output_selection(fn.arg[1])>>]
    /\ UNCHANGED <<now, diag, pots_and_buttons_, inputs_, outputs_, hw, ev, hist>>

NextPotRange == ApplyPotRange

SpecPotRange == InitPotRange /\ [][NextPotRange]_vars

(***************************************************************************)
(* The level meter applied to every raw sample: the input selection is     *)
(* fn.arg[2], the stored peak fn.arg[3] was raised in this millisecond and *)
(* the selected channel reads fn.arg[1]                                    *)
(***************************************************************************)
Samples == 0 .. 4095

InitLevel ==
    /\ InitProgram
    /\ fn \in [arg : (Samples \X {"AUDIO_A"} \X {0, 1000})
                      \cup ({0, VU_CENTER, 4095} \X {"NONE", "AUDIO_B", "PULSE"}
                                \X {0, 1000}),
                applied : {FALSE}, res : {<<>>}]

\* res = <<level returned, stored peak, peak timestamp>>
ApplyLevelMeter ==
    /\ ~fn.applied
    /\ LET w == [World(SelfTestMs) EXCEPT
                    !.inputs_.selected_input_ = fn.arg[2],
                    !.inputs_.vu_peak_hold_ = fn.arg[3],
                    !.inputs_.vu_peak_time_ = SelfTestMs]
           r == get_vu_meter_level(w, [NoInput EXCEPT !.adc = fn.arg[1]])
       IN fn' = [fn EXCEPT !.applied = TRUE,
                           !.res = <<r.ret, r.inputs_.vu_peak_hold_,
                                     r.inputs_.vu_peak_time_>>]
    /\ UNCHANGED <<now, diag, pots_and_buttons_, inputs_, outputs_, hw, ev, hist>>

NextLevel == ApplyLevelMeter

SpecLevel == InitLevel /\ [][NextLevel]_vars

\* map_pot_to_leds applied to every pair of cached values of pots 0 and 1
InitPotLeds ==
    /\ InitProgram
    /\ fn \in [arg : (0 .. POT_MAX) \X (0 .. POT_MAX),
                applied : {FALSE}, res : {<<>>}]

\* res = <<LEDs for pot 0, LEDs for pot 1>>
ApplyMapPotToLeds ==
    /\ ~fn.applied
    /\ LET w == [World(SelfTestMs) EXCEPT
                    !.pots_and_buttons_.pot_values_ =
                        (0 :> fn.arg[1] @@ 1 :> fn.arg[2] @@ 2 :> 0)]
       IN fn' = [fn EXCEPT !.applied = TRUE,
                           !.res = <<map_pot_to_leds(w, 0), map_pot_to_leds(w, 1)>>]
    /\ UNCHANGED <<now, diag, pots_and_buttons_, inputs_, outputs_, hw, ev, hist>>

NextPotLeds == ApplyMapPotToLeds

SpecPotLeds == InitPotLeds /\ [][NextPotLeds]_vars

(***************************************************************************)
(* The peak hold applied to every raw sample, over stored peaks up to the  *)
(* largest deviation and calls inside, at the end of and after the hold    *)
(* window                                                                  *)
(***************************************************************************)
StoredPeaks == {0, 1, 1000, 2047, 2048}
CallGaps == {0, 99, 100, 101, 500}

\* fn.arg = <<raw sample, stored peak, ms since the peak was raised>>
InitPeak ==
    /\ InitProgram
    /\ fn \in [arg : Samples \X StoredPeaks \X CallGaps,
                applied : {FALSE}, res : {<<>>}]

\* res = <<stored peak, peak timestamp, level returned>>
ApplyPeakHold ==
    /\ ~fn.applied
    /\ LET w == [World(SelfTestMs + fn.arg[3]) EXCEPT
                    !.inputs_.selected_input_ = "AUDIO_B",
                    !.inputs_.vu_peak_hold_ = fn.arg[2],
                    !.inputs_.vu_peak_time_ = SelfTestMs]
           r == get_vu_meter_level(w, [NoInput EXCEPT !.adc = fn.arg[1]])
       IN fn' = [fn EXCEPT !.applied = TRUE,
                           !.res = <<r.inputs_.vu_peak_hold_,
                                     r.inputs_.vu_peak_time_, r.ret>>]
    /\ UNCHANGED <<now, diag, pots_and_buttons_, inputs_, outputs_, hw, ev, hist>>

NextPeak == ApplyPeakHold

SpecPeak == InitPeak /\ [][NextPeak]_vars

\* the startup run with the clock advancing: main()'s loop never stops calling
\* update(), and the monotonic clock rises between calls (stated for the calls
\* made during the LED test, which is all the fairness the run needs)
ClockAdvances ==
    /\ \/ StartupAnimationStep(DeltasStartup, StartupClockLimit)
       \/ BrightnessStep(DeltasStartup, StartupClockLimit)
    /\ now' > now

LiveStartup == SpecStartup /\ WF_vars(ClockAdvances)

(***************************************************************************)
(* Properties                                                              *)
(***************************************************************************)
StateRank(st) == CASE st = "LED_STARTUP_ANIMATION" -> 0
                   [] st = "LED_BRIGHTNESS_TEST" -> 1
                   [] st = "INTERACTIVE_MODE" -> 2

InInteractive == diag.current_state_ = "INTERACTIVE_MODE"

\* C1: every update() leaves the controller state where it is or moves it one
\* place forward in LED_STARTUP_ANIMATION -> LED_BRIGHTNESS_TEST ->
\* INTERACTIVE_MODE; it never goes back, never skips the brightness test, and
\* never leaves INTERACTIVE_MODE.
C1_OneDirectional ==
    [][/\ StateRank(diag'.current_state_) - StateRank(diag.current_state_) \in {0, 1}
       /\ (InInteractive => diag'.current_state_ = "INTERACTIVE_MODE")]_vars

C1_Witness ==
    /\ InInteractive
    /\ hist.op = "interactive"
    /\ hist.pre_state = "INTERACTIVE_MODE"
    /\ hist.bright_entered = 1
    /\ pots_and_buttons_.button1_pressed_

\* C2: with update() called again and again while the clock advances,
\* INTERACTIVE_MODE is reached, and whenever the controller is there the
\* animation has run exactly 3 times, set_brightness exactly 30 times, and the
\* brightness state has been entered once and left once.
C2_ReachesInteractive ==
    /\ <>InInteractive
    /\ [](InInteractive =>
            /\ hist.anim_steps = STARTUP_ANIMATION_CYCLES
            /\ hist.bright_steps = NO_OF_LEDS * NUM_BRIGHTNESS_LEVELS
            /\ hist.bright_entered = 1
            /\ hist.bright_exited = 1)

C2_Witness ==
    /\ InInteractive
    /\ hist.op = "brightness"
    /\ hist.anim_steps = 3
    /\ hist.bright_steps = 30
    /\ hist.bright_exited = 1

AnimationTriggered == HasOp(ev, "startup_animation")

\* C3: the startup animation runs exactly 3 times in all, one per update();
\* each run comes at least 1000 ms after the previous one (the first at least
\* 1000 ms after init()); and the update() that runs the third one moves to
\* LED_BRIGHTNESS_TEST with current_led_ = 0 and current_brightness_step_ = 0.
C3_StartupAnimation ==
    /\ hist.anim_steps <= 3
    /\ (diag.current_state_ = "LED_STARTUP_ANIMATION") = (hist.anim_steps < 3)
    /\ AnimationTriggered =>
          /\ CountOp(ev, "startup_animation") = 1
          /\ hist.op = "startup"
          /\ hist.step_gap >= 1000
          /\ hist.anim_steps = 3 =>
                /\ diag.current_state_ = "LED_BRIGHTNESS_TEST"
                /\ diag.current_led_ = 0
                /\ diag.current_brightness_step_ = 0

C3_Witness ==
    /\ AnimationTriggered
    /\ hist.anim_steps = 3
    /\ hist.step_gap = 1250
    /\ diag.current_state_ = "LED_BRIGHTNESS_TEST"

BrightnessStepped == HasOp(ev, "set_brightness")

\* the LED and the level the k-th set_brightness of the run must carry
SweepLed(k) == (k - 1) \div 5
SweepLevel(k) == 51 * (((k - 1) % 5) + 1)

\* C4: the k-th set_brightness of the run goes to LED (k-1) div 5 with level
\* 51, 102, 153, 204, 255 in turn (so the LED index is below 6 and the ladder
\* index below 5), one per update() and at least 500 ms after the previous
\* step; a fifth level is followed in the same update() by turning that LED
\* off, and after LED 5 by all LEDs off and INTERACTIVE_MODE; the LEDs show
\* exactly that.
C4_BrightnessSweep ==
    /\ hist.bright_steps <= 30
    /\ (hist.bright_steps = 30) = InInteractive
    /\ BrightnessStepped =>
          LET k == hist.bright_steps
              led == SweepLed(k)
              fifth == k % 5 = 0
          IN /\ hist.op = "brightness"
             /\ hist.step_gap >= 500
             /\ ev[1] = Ev("set_brightness", led, SweepLevel(k))
             /\ led \in 0 .. 5
             /\ ev = IF k = 30
                     THEN <<ev[1], Ev("led_off", led, 0), Ev("off_all", 0, 0)>>
                     ELSE IF fifth THEN <<ev[1], Ev("led_off", led, 0)>>
                     ELSE <<ev[1]>>
             /\ hw.leds = IF fifth THEN AllOff
                          ELSE [AllOff EXCEPT ![led] = SweepLevel(k)]
             /\ diag.current_led_ = k \div 5
             /\ diag.current_brightness_step_ = k % 5

C4_Witness ==
    /\ BrightnessStepped
    /\ hist.bright_steps = 30
    /\ hist.step_gap = 750
    /\ InInteractive
    /\ hw.leds = AllOff

ZoneOf(v) == IF v = 0 THEN "NONE"
             ELSE IF v \in 1 .. 42 THEN "AUDIO_A"
             ELSE IF v \in 43 .. 84 THEN "AUDIO_B"
             ELSE IF v \in 85 .. 127 THEN "PULSE"
             ELSE "outside"

\* C5: for every pot value 0..127 the input mapper returns NONE for 0,
\* AUDIO_A for 1..42, AUDIO_B for 43..84, PULSE for 85..127, and the output
\* mapper returns the same channel.
C5_SelectionMapper ==
    fn.applied =>
        /\ fn.res[1] \in Selections
        /\ fn.res[1] = ZoneOf(fn.arg)
        /\ fn.res[2] = fn.res[1]

C5_Witness ==
    /\ fn.applied
    /\ fn.arg = 85
    /\ fn.res = <<"PULSE", "PULSE">>

BothHeldNow ==
    pots_and_buttons_.button1_pressed_ /\ pots_and_buttons_.button2_pressed_

\* the last update() was an interactive cycle with both buttons held
HeldCycle == hist.op = "interactive" /\ BothHeldNow

Pot(i) == pots_and_buttons_.pot_values_[i]

\* C6: both selections are NONE until the first cycle with both buttons held,
\* and an update() that is not an interactive cycle with both buttons held
\* (LED test steps, normal-mode cycles) leaves both selections as they were.
C6_SelectionFrame ==
    /\ ~hist.ever_held =>
          /\ inputs_.selected_input_ = "NONE"
          /\ outputs_.selected_output_ = "NONE"
    /\ ~HeldCycle =>
          /\ inputs_.selected_input_ = hist.pre_input
          /\ outputs_.selected_output_ = hist.pre_output

C6_Witness ==
    /\ hist.op = "interactive"
    /\ ~BothHeldNow
    /\ pots_and_buttons_.button1_pressed_
    /\ Pot(0) = 127
    /\ Pot(1) = 42
    /\ inputs_.selected_input_ = "AUDIO_B"
    /\ outputs_.selected_output_ = "NONE"

\* C7: in a cycle with both buttons held the input selection becomes the zone
\* of pot 0 when pot 0 is nonzero and is left alone when it is 0, and the
\* output selection likewise follows pot 1, each without regard to the other.
C7_IndependentSelectors ==
    HeldCycle =>
        /\ inputs_.selected_input_ =
              IF Pot(0) > 0 THEN ZoneOf(Pot(0)) ELSE hist.pre_input
        /\ outputs_.selected_output_ =
              IF Pot(1) > 0 THEN ZoneOf(Pot(1)) ELSE hist.pre_output

C7_Witness ==
    /\ HeldCycle
    /\ Pot(0) > 0
    /\ Pot(1) > 0
    /\ inputs_.selected_input_ # hist.pre_input
    /\ outputs_.selected_output_ # hist.pre_output

Lit(i) == hw.leds[i] = LED_FULL

StatusPattern(selected_input, selected_output) ==
    [k \in LedIdx |->
        IF \/ k = 0 /\ selected_input = "AUDIO_A"
           \/ k = 1 /\ selected_input = "AUDIO_B"
           \/ k = 2 /\ selected_input = "PULSE"
           \/ k = 3 /\ selected_output = "AUDIO_A"
           \/ k = 4 /\ selected_output = "AUDIO_B"
           \/ k = 5 /\ selected_output = "PULSE"
        THEN LED_FULL ELSE LED_OFF]

\* C8: after a cycle with both buttons held the LEDs show the status map of
\* the selections as they are after that cycle: LED 0/1/2 for input
\* AUDIO_A/AUDIO_B/PULSE, LED 3/4/5 for output AUDIO_A/AUDIO_B/PULSE; so at
\* most one of LEDs 0-2 and at most one of LEDs 3-5 is lit.
C8_StatusDisplay ==
    HeldCycle =>
        /\ hw.leds = StatusPattern(inputs_.selected_input_, outputs_.selected_output_)
        /\ Cardinality({k \in 0 .. 2 : Lit(k)}) <= 1
        /\ Cardinality({k \in 3 .. 5 : Lit(k)}) <= 1

C8_Witness ==
    /\ HeldCycle
    /\ inputs_.selected_input_ = "AUDIO_B"
    /\ hist.pre_input = "PULSE"
    /\ outputs_.selected_output_ = "PULSE"
    /\ Lit(1)
    /\ Lit(5)

SummaryEmitted == HasOp(ev, "print_config")

\* C9: an update() prints the configuration summary iff it is an interactive
\* cycle with not both buttons held whose previous interactive cycle had both
\* held; it prints it once, with the selections then in force, never before a
\* both-held cycle has happened, and the next thing it does is turn all LEDs
\* off, no LED having been written earlier in that update().
C9_SummaryOnRelease ==
    /\ SummaryEmitted = (hist.op = "interactive" /\ ~BothHeldNow /\ hist.prev_held)
    /\ SummaryEmitted =>
          /\ CountOp(ev, "print_config") = 1
          /\ hist.ever_held
          /\ \E k \in 1 .. (Len(ev) - 1) :
                /\ ev[k] = Ev("print_config", SelInt(inputs_.selected_input_),
                              SelInt(outputs_.selected_output_))
                /\ ev[k + 1] = Ev("off_all", 0, 0)
                /\ \A j \in 1 .. (k - 1) : ev[j].op \notin LedOps

C9_Witness ==
    /\ SummaryEmitted
    /\ inputs_.selected_input_ = "PULSE"
    /\ outputs_.selected_output_ = "AUDIO_A"
    /\ ~diag.both_buttons_held_

PerChangeNotice ==
    HasOp(ev, "print_input_selected") \/ HasOp(ev, "print_output_selected")

\* C10: no update() prints "Input selected" or "Output selected": not while
\* both buttons are held, whatever the selectors do, and not in any other
\* cycle; a cycle that changes a selection prints nothing about it.
C10_NoNoticeWhileHeld ==
    /\ ~PerChangeNotice
    /\ (HeldCycle /\ (inputs_.selected_input_ # hist.pre_input
                      \/ outputs_.selected_output_ # hist.pre_output))
          => ~SummaryEmitted

C10_Witness ==
    /\ HeldCycle
    /\ hist.prev_held
    /\ hist.pre_input = "AUDIO_A"
    /\ inputs_.selected_input_ = "PULSE"
    /\ hist.pre_output # outputs_.selected_output_

(***************************************************************************)
(* Selection changes reset the dependent state                             *)
(***************************************************************************)
InputSwitched == hist.op = "interactive" /\ inputs_.selected_input_ # hist.pre_input

OutputSwitched == hist.op = "interactive" /\ outputs_.selected_output_ # hist.pre_output

EvIdx(op) == {k \in 1 .. Len(ev) : ev[k].op = op}

RenderOps == {"render_triangle", "render_square"}

\* C11: an update() that changes the input selection leaves the peak at 0, the
\* peak timestamp at the current time and the pulse tracking uninitialised, and
\* reads no input after the change; one that changes the output selection
\* leaves the waveform epoch at the current time, the last rendered phase at 0
\* and the digital state low, and renders nothing after the change.  Hence the
\* stored peak and every reported meter level are bounded by the highest
\* deviation sampled since the input selection last changed.
C11_ResetOnSwitch ==
    /\ InputSwitched =>
          /\ inputs_.vu_peak_hold_ = 0
          /\ inputs_.vu_peak_time_ = now
          /\ ~inputs_.pulse_state_initialized_
          /\ EvIdx("print_vu") = {} /\ EvIdx("print_pulse_in") = {}
    /\ OutputSwitched =>
          /\ outputs_.waveform_start_time_ = now
          /\ outputs_.last_phase_ms_ = 0
          /\ ~outputs_.pulse_state_
          /\ \A r \in 1 .. Len(ev), p \in EvIdx("pulse_set") :
                ev[r].op \in RenderOps => r < p
    /\ inputs_.vu_peak_hold_ <= hist.peak_since_switch
    /\ \A k \in EvIdx("print_vu") :
          ev[k].b <= VuLevelOfPeak(hist.peak_since_switch)

\* a full-scale peak was stored when the input was switched, and the first
\* reading on the new input, at mid-rail, reports level 0
C11_Witness ==
    /\ hist.peak_at_switch = 2047
    /\ hist.peak_since_switch = 0
    /\ inputs_.selected_input_ = "AUDIO_B"
    /\ \E k \in EvIdx("print_vu") : ev[k].a = VU_CENTER /\ ev[k].b = 0
    /\ outputs_.selected_output_ = "PULSE"

OutputWriteOps == {"set_voltage", "pulse_set"}

\* C12: an update() that changes the output selection writes, in this order,
\* the resting voltage of the coupling flag it found (5 V when DC, 0 V when AC)
\* to channel A and to channel B and low to the digital output; nothing is
\* rendered or written to an output after that in the same update(), so the
\* outputs rest at these values when the new selection starts.
C12_StopOnSwitch ==
    [][outputs_'.selected_output_ # outputs_.selected_output_ =>
         LET rest == IF outputs_.ac_coupled_ THEN STOP_VOLTAGE_AC
                     ELSE STOP_VOLTAGE_DC
         IN /\ hw'.voltage[CHANNEL_A] = rest
            /\ hw'.voltage[CHANNEL_B] = rest
            /\ ~hw'.pulse_out
            /\ \E k \in 1 .. (Len(ev') - 2) :
                  /\ ev'[k] = Ev("set_voltage", CHANNEL_A, rest)
                  /\ ev'[k + 1] = Ev("set_voltage", CHANNEL_B, rest)
                  /\ ev'[k + 2] = Ev("pulse_set", 0, 0)
                  /\ \A j \in (k + 3) .. Len(ev') :
                        ev'[j].op \notin OutputWriteOps \cup RenderOps]_vars

\* the selection left channel A while DC-coupled and the same update() switched
\* to AC: the channels rest at the DC value
C12_Witness ==
    /\ OutputSwitched
    /\ hist.pre_output = "AUDIO_A"
    /\ outputs_.ac_coupled_
    /\ hw.voltage[CHANNEL_A] = STOP_VOLTAGE_DC
    /\ hw.voltage[CHANNEL_B] = STOP_VOLTAGE_DC
    /\ ~hw.pulse_out

(***************************************************************************)
(* The waveform is rendered whatever the display shows                     *)
(***************************************************************************)
NormalCycle == hist.op = "interactive" /\ ~BothHeldNow

\* the render call an update() makes for a selected output
RenderOf(selected) ==
    CASE selected = "AUDIO_A" -> {k \in EvIdx("render_triangle") : ev[k].a = CHANNEL_A}
      [] selected = "AUDIO_B" -> {k \in EvIdx("render_triangle") : ev[k].a = CHANNEL_B}
      [] selected = "PULSE" -> EvIdx("render_square")
      [] OTHER -> {}

MaxPot == MaxOf({Pot(0), Pot(1), Pot(2)})

\* what the LEDs show after a normal-mode cycle, from the input side alone
NormalLeds ==
    CASE inputs_.selected_input_ = "NONE" ->
            IF pots_and_buttons_.button1_pressed_ \/ pots_and_buttons_.button2_pressed_
            THEN AllOn ELSE BarPattern(LedsForPotValue(MaxPot))
      [] inputs_.selected_input_ \in {"AUDIO_A", "AUDIO_B"} ->
            BarPattern(VuLevelOfPeak(inputs_.vu_peak_hold_))
      [] inputs_.selected_input_ = "PULSE" ->
            IF inputs_.last_pulse_state_ THEN AllOn ELSE AllOff

\* C13: every interactive cycle that starts with an output selected makes
\* exactly one render call, for that output, whatever the buttons, the input
\* selection and the LEDs are; and after a normal-mode cycle the LEDs are a
\* function of the buttons, the pots and the input side only, in which the
\* output selection does not occur.
C13_RenderIndependent ==
    /\ hist.op = "interactive" /\ hist.pre_output # "NONE" =>
          /\ Cardinality(RenderOf(hist.pre_output)) = 1
          /\ EvIdx("render_triangle") \cup EvIdx("render_square")
                = RenderOf(hist.pre_output)
    /\ NormalCycle => hw.leds = NormalLeds

\* channel B is rendered in a cycle with both buttons held, the LEDs showing
\* the status display
C13_Witness ==
    /\ HeldCycle
    /\ hist.pre_output = "AUDIO_B"
    /\ RenderOf("AUDIO_B") # {}
    /\ inputs_.selected_input_ = "PULSE"
    /\ hw.leds = StatusPattern(inputs_.selected_input_, outputs_.selected_output_)

(***************************************************************************)
(* Square wave on the digital output                                       *)
(***************************************************************************)
\* ms since the epoch of the current output selection, modulo the period
Phase == (now - outputs_.waveform_start_time_) % WAVEFORM_PERIOD_MS

\* the last update() rendered the square wave and PULSE is still selected
SquareRendered ==
    /\ hist.op = "interactive"
    /\ hist.pre_output = "PULSE"
    /\ outputs_.selected_output_ = "PULSE"
    /\ EvIdx("render_square") # {}

\* C14: while the output selection is PULSE, after every update() that rendered
\* the square wave the digital output (and the stored digital state) is high
\* exactly when the phase, (now - epoch) mod 1000, is below 500.
C14_SquareLevel ==
    SquareRendered =>
        /\ hw.pulse_out = (Phase < 500)
        /\ outputs_.pulse_state_ = hw.pulse_out

\* the render at phase 500 exactly drives the output low
C14_Witness ==
    /\ SquareRendered
    /\ now - outputs_.waveform_start_time_ = 500
    /\ ~hw.pulse_out
    /\ \E k \in EvIdx("pulse_set") : ev[k].a = 0

\* C15: a square-wave render writes the digital output exactly when the level
\* it computes differs from the level driven before, and then writes that
\* level; so consecutive writes alternate.  With a render at least once per
\* millisecond the renders write at most twice in any one period of 1000 ms
\* counted from the selection's epoch.
C15_SquareWrites ==
    /\ \A k \in EvIdx("render_square") :
          LET level == ev[k].a < 500
              written == k < Len(ev) /\ ev[k + 1].op = "pulse_set"
          IN /\ written <=> (level # hist.pre_pulse_out)
             /\ written => ev[k + 1].a = BoolInt(level)
    /\ hist.sq_writes <= 2

\* the first write of the second period: high again, 1000 ms after the epoch,
\* after two writes in the first period
C15_Witness ==
    /\ SquareRendered
    /\ hist.sq_period = 1
    /\ hist.sq_writes = 1
    /\ now - outputs_.waveform_start_time_ = 1000
    /\ hw.pulse_out
    /\ ~hist.pre_pulse_out

PulseSelected == InInteractive /\ outputs_.selected_output_ = "PULSE"

\* the clock can still run for three half periods
ThreeHalvesLeft == now + 3 * HALF_PERIOD_MS <= ToggleClockLimit

\* C16: with interactive cycles at most 500 ms apart, whenever PULSE is
\* selected and the digital output is low it is later driven high unless the
\* selection is changed first, and whenever it is high it is later driven low
\* (by the render or by a change of selection), whatever the buttons and the
\* LEDs do in between; stated for every instant that leaves the clock of the
\* run three half periods.
C16_PulseToggles ==
    /\ [](PulseSelected /\ ~hw.pulse_out /\ ThreeHalvesLeft
            => <>(hw.pulse_out \/ ~PulseSelected))
    /\ [](PulseSelected /\ hw.pulse_out /\ ThreeHalvesLeft
            => <>(~hw.pulse_out))

\* the output is high again in the second period, in a cycle with no button
\* pressed
C16_Witness ==
    /\ SquareRendered
    /\ ~BothHeldNow
    /\ now - outputs_.waveform_start_time_ >= WAVEFORM_PERIOD_MS
    /\ hw.pulse_out

(***************************************************************************)
(* Triangle wave on the analog channels                                    *)
(***************************************************************************)
\* C17: at every phase p of 0..999 at which the triangle render drives the
\* selected channel it writes one voltage, in hundredths of a volt 2p for
\* p < 500 and 1000 - 2(p - 500) for p >= 500: 500 at p = 250, 1000 at p = 500,
\* 500 at p = 750, the same at p and at 1000 - p for p in 1..999, and never
\* outside 0..1000.
C17_TriangleVoltage ==
    fn.applied /\ fn.arg[1] # fn.arg[2] =>
        LET p == fn.arg[1] IN
        /\ Len(fn.res) = 1
        /\ fn.res[1] = (IF p < 500 THEN 2 * p ELSE 1000 - 2 * (p - 500))
        /\ p = 250 => fn.res[1] = 500
        /\ p = 500 => fn.res[1] = 1000
        /\ p = 750 => fn.res[1] = 500
        /\ p \in 1 .. 999 => fn.res[1] = TriangleVoltage(1000 - p)
        /\ fn.res[1] >= 0 /\ fn.res[1] <= 1000

\* the render at phase 750 has written 5 V
C17_Witness == fn.applied /\ fn.arg = <<750, 0>> /\ fn.res = <<500>>

\* the last update() rendered the triangle on a channel that is still selected
TriangleRendered(channel) ==
    /\ hist.op = "interactive"
    /\ outputs_.selected_output_ = hist.pre_output
    /\ \E k \in EvIdx("render_triangle") : ev[k].a = channel

\* C18: after every update() whose triangle render ran at phase 0 on the
\* selected channel, the first render after the selection included, that
\* channel is at 0 V.
C18_PhaseZeroIsZeroVolt ==
    \A k \in EvIdx("render_triangle") :
        TriangleRendered(ev[k].a) /\ ev[k].b = 0 => hw.voltage[ev[k].a] = 0

\* the first render after channel A was selected runs at phase 0, writes
\* nothing, and the DC-coupled channel stays at its resting 5 V
C18_Witness ==
    /\ TriangleRendered(CHANNEL_A)
    /\ now = outputs_.waveform_start_time_
    /\ \E k \in EvIdx("render_triangle") : ev[k].b = 0
    /\ EvIdx("set_voltage") = {}
    /\ ~outputs_.ac_coupled_
    /\ hw.voltage[CHANNEL_A] = STOP_VOLTAGE_DC

\* the triangle render calls of an update(), and those followed by a write
TriangleRenders(s) == {k \in 1 .. Len(s) : s[k].op = "render_triangle"}

TriangleWrites(s) ==
    {k \in TriangleRenders(s) : k < Len(s) /\ s[k + 1].op = "set_voltage"}

\* C19: in an update() that keeps the output selection, a triangle render whose
\* phase equals the last rendered phase writes no voltage and leaves the
\* waveform state (last phase, epoch, last printed phase, digital state) as it
\* was; and a render that does write never does so at an instant at which a
\* render has already written since the channel was selected.
C19_RenderIdempotent ==
    [][outputs_'.selected_output_ = outputs_.selected_output_ =>
         /\ \A k \in TriangleRenders(ev') :
               ev'[k].b = outputs_.last_phase_ms_ =>
                  /\ \A j \in 1 .. Len(ev') : ev'[j].op # "set_voltage"
                  /\ hw'.voltage = hw.voltage
                  /\ outputs_'.last_phase_ms_ = outputs_.last_phase_ms_
                  /\ outputs_'.waveform_start_time_ = outputs_.waveform_start_time_
                  /\ outputs_'.last_voltage_print_ms_ = outputs_.last_voltage_print_ms_
                  /\ outputs_'.pulse_state_ = outputs_.pulse_state_
         /\ TriangleWrites(ev') # {} =>
               /\ Cardinality(TriangleWrites(ev')) = 1
               /\ hist.last_tri_write # now']_vars

\* a second render within the millisecond of a write at phase 249: nothing is
\* written, the channel keeps 4.98 V
C19_Witness ==
    /\ TriangleRendered(CHANNEL_A)
    /\ \E k \in EvIdx("render_triangle") : ev[k].b = 249
    /\ EvIdx("set_voltage") = {}
    /\ hist.last_tri_write = now
    /\ hw.voltage[CHANNEL_A] = 498

(***************************************************************************)
(* Level meter                                                             *)
(***************************************************************************)
AbsDev(sample) == IF sample >= 2048 THEN sample - 2048 ELSE 2048 - sample

\* C20: an update() that reads the meter with a sample whose deviation
\* |sample - 2048| exceeds the stored peak raises the peak to it and restarts
\* the hold timer; one that reads a sample whose deviation is not higher, no
\* more than 100 ms after the timer was started, leaves peak and timer as they
\* were and reports the level of that peak.  The reported level is always the
\* level of the stored peak.
C20_PeakHold ==
    [][\A k \in {j \in 1 .. Len(ev') : ev'[j].op = "print_vu"} :
         LET dev == AbsDev(ev'[k].a)
             level == ev'[k].b
         IN /\ dev > inputs_.vu_peak_hold_ =>
                  /\ inputs_'.vu_peak_hold_ = dev
                  /\ inputs_'.vu_peak_time_ = now'
            /\ dev <= inputs_.vu_peak_hold_
                  /\ now' - inputs_.vu_peak_time_ <= 100 =>
                  /\ inputs_'.vu_peak_hold_ = inputs_.vu_peak_hold_
                  /\ inputs_'.vu_peak_time_ = inputs_.vu_peak_time_
                  /\ level = VuLevelOfPeak(inputs_.vu_peak_hold_)
            /\ level = VuLevelOfPeak(inputs_'.vu_peak_hold_)]_vars

\* a full-scale spike is still shown 100 ms later although the sample is back
\* at mid-rail
C20_Witness ==
    /\ NormalCycle
    /\ \E k \in EvIdx("print_vu") : ev[k].a = VU_CENTER /\ ev[k].b = 6
    /\ inputs_.vu_peak_hold_ = 2047
    /\ now - inputs_.vu_peak_time_ = 100
    /\ hw.leds = AllOn

\* the meter readings of an update()
MeterReadings(s) == {k \in 1 .. Len(s) : s[k].op = "print_vu"}

\* C21: an update() that reads the meter more than 100 ms after the peak was
\* last raised leaves the stored peak at the deviation |s - 2048| of the sample
\* s it read, whatever the peak was before, and reports the level of that
\* deviation; and a reading whose deviation equals the stored peak leaves the
\* peak and the level there, so both stay for as long as the sample stays s.
C21_MeterSettles ==
    [][\A k \in MeterReadings(ev') :
         LET dev == AbsDev(ev'[k].a)
             level == ev'[k].b
         IN /\ now' - inputs_.vu_peak_time_ > 100 =>
                  /\ inputs_'.vu_peak_hold_ = dev
                  /\ level = VuLevelOfPeak(dev)
            /\ dev = inputs_.vu_peak_hold_ =>
                  /\ inputs_'.vu_peak_hold_ = dev
                  /\ level = VuLevelOfPeak(dev)]_vars

\* after a full-scale peak the sample has been 2600 for more than 100 ms: the
\* peak has come down to 552 and the meter shows two LEDs
C21_Witness ==
    /\ NormalCycle
    /\ hist.peak_since_switch = 2047
    /\ \E k \in EvIdx("print_vu") : ev[k].a = 2600 /\ ev[k].b = 2
    /\ inputs_.vu_peak_hold_ = 552
    /\ now - inputs_.vu_peak_time_ > 100
    /\ hw.leds = BarPattern(2)

LevelThresholds == {170, 510, 850, 1190, 1530, 1870}

ThresholdsReached(peak) == Cardinality({t \in LevelThresholds : t <= peak})

\* C22: for every raw sample in 0..4095 read on a selected audio channel the
\* meter returns the number of thresholds 170, 510, 850, 1190, 1530, 1870 that
\* the stored peak has reached, a level in 0..6 that does not fall when the
\* peak rises; with NONE or PULSE selected it returns 0 and leaves the peak and
\* its timestamp as they were.
C22_LevelQuantised ==
    fn.applied =>
        LET level == fn.res[1]
            peak == fn.res[2]
        IN IF fn.arg[2] \in {"AUDIO_A", "AUDIO_B"}
           THEN /\ peak = MaxOf({AbsDev(fn.arg[1]), fn.arg[3]})
                /\ level = ThresholdsReached(peak)
                /\ level \in 0 .. 6
                /\ VuLevelOfPeak(peak + 1) >= level
           ELSE /\ level = 0
                /\ peak = fn.arg[3]
                /\ fn.res[3] = SelfTestMs

\* a sample whose deviation is exactly on the third threshold
C22_Witness ==
    /\ fn.applied
    /\ fn.arg = <<VU_CENTER - 850, "AUDIO_A", 0>>
    /\ fn.res[1] = 3
    /\ fn.res[2] = 850

(***************************************************************************)
(* The display in normal mode                                              *)
(***************************************************************************)
\* the LED writes of an update(), and those that are not the clearing of the
\* status display on the release edge
LedWriteIdx(s) == {k \in 1 .. Len(s) : s[k].op \in LedOps}

ReleaseClear(s) ==
    {k \in 2 .. Len(s) : s[k].op = "off_all" /\ s[k - 1].op = "print_config"}

\* the step is a normal-mode cycle that starts with an input selected
InputTestStep ==
    /\ diag.current_state_ = "INTERACTIVE_MODE"
    /\ ~(pots_and_buttons_'.button1_pressed_ /\ pots_and_buttons_'.button2_pressed_)
    /\ inputs_.selected_input_ # "NONE"

\* C23 as stated: in a normal-mode cycle with AUDIO_A/B selected whose meter
\* level equals the last rendered count, the last state not being all-on, and
\* in one with PULSE selected whose input level equals the last rendered
\* all-on/all-off state, no LED is written.
C23_NoLedWriteWhenUnchanged ==
    [][InputTestStep =>
         /\ \A k \in MeterReadings(ev') :
               ev'[k].b = diag.last_num_leds_ /\ ~diag.last_leds_all_on_ =>
                  LedWriteIdx(ev') = {}
         /\ inputs_.selected_input_ = "PULSE"
               /\ inputs_'.last_pulse_state_ = diag.last_leds_all_on_ =>
                  LedWriteIdx(ev') = {}]_vars

\* what the render finds as the last rendered state: the release edge has
\* reset it to "0 LEDs, not all-on" when the cycle follows a held cycle
FoundNumLeds == IF diag.both_buttons_held_ THEN 0 ELSE diag.last_num_leds_

FoundAllOn == IF diag.both_buttons_held_ THEN FALSE ELSE diag.last_leds_all_on_

\* C23 amended: in such a cycle the only LED write there can be is the clearing
\* of the status display by the release edge, in the first cycle after both
\* buttons were held; the render of the meter or of the pulse state writes no
\* LED when its value equals the last rendered state it finds.
C23_RenderWritesSuppressed ==
    [][InputTestStep =>
         /\ \A k \in MeterReadings(ev') :
               ev'[k].b = FoundNumLeds /\ ~FoundAllOn =>
                  LedWriteIdx(ev') = ReleaseClear(ev')
         /\ inputs_.selected_input_ = "PULSE"
               /\ inputs_'.last_pulse_state_ = FoundAllOn =>
                  LedWriteIdx(ev') = ReleaseClear(ev')
         /\ ~diag.both_buttons_held_ => ReleaseClear(ev') = {}]_vars

\* the meter shows six LEDs, reads level 6 again and writes no LED
C23_Witness ==
    /\ NormalCycle
    /\ ~hist.prev_held
    /\ inputs_.selected_input_ = "AUDIO_A"
    /\ \E k \in EvIdx("print_vu") : ev[k].b = 6
    /\ LedWriteIdx(ev) = {}
    /\ hw.leds = AllOn
    /\ diag.last_num_leds_ = 6

AnyButtonNow ==
    pots_and_buttons_.button1_pressed_ \/ pots_and_buttons_.button2_pressed_

\* the index of the highest-valued pot, the lowest such index on ties
HighestPot ==
    CHOOSE i \in 0 .. 2 :
        /\ \A j \in 0 .. 2 : Pot(j) <= Pot(i)
        /\ \A j \in 0 .. (i - 1) : Pot(j) < Pot(i)

LitFromZero(n) == [k \in LedIdx |-> IF k < n THEN LED_FULL ELSE LED_OFF]

\* C24: after a normal-mode cycle with input selection NONE all six LEDs are on
\* if a button is pressed; otherwise the first (6 v + 63) div 127 LEDs are on
\* and the others off, v being the value of the highest-valued pot (lowest
\* index on ties, pot 0 when all are 0).  For pots [10, 80, 5] that pot is
\* pot 1.
C24_DefaultDisplay ==
    NormalCycle /\ inputs_.selected_input_ = "NONE" =>
        /\ AnyButtonNow => \A k \in LedIdx : hw.leds[k] = LED_FULL
        /\ ~AnyButtonNow =>
              hw.leds = LitFromZero((6 * Pot(HighestPot) + 63) \div 127)
        /\ pots_and_buttons_.pot_values_ = (0 :> 10 @@ 1 :> 80 @@ 2 :> 5) =>
              HighestPot = 1

\* pots [10, 80, 5], no button: four LEDs
C24_Witness ==
    /\ NormalCycle
    /\ inputs_.selected_input_ = "NONE"
    /\ ~AnyButtonNow
    /\ pots_and_buttons_.pot_values_ = (0 :> 10 @@ 1 :> 80 @@ 2 :> 5)
    /\ hw.leds = LitFromZero(4)

\* C25: for every cached pot value v in 0..127 map_pot_to_leds returns
\* (6 v + 63) div 127, which lies in 0..6, does not decrease when v grows, is
\* 0 at v = 0, 6 at v = 127 and 4 at v = 80.
C25_PotToLeds ==
    fn.applied /\ Len(fn.arg) = 2 /\ Len(fn.res) = 2 =>
        LET v == fn.arg[1]
            u == fn.arg[2]
        IN /\ fn.res[1] = (6 * v + 63) \div 127
           /\ fn.res[1] \in 0 .. 6
           /\ v <= u => fn.res[1] <= fn.res[2]
           /\ v = 0 => fn.res[1] = 0
           /\ v = 127 => fn.res[1] = 6
           /\ v = 80 => fn.res[1] = 4

\* the value 80 mapped to four LEDs, next to the top value
C25_Witness ==
    /\ fn.applied
    /\ fn.arg = <<80, 127>>
    /\ fn.res = <<4, 6>>

\* C26: after a normal-mode cycle in which a button is pressed all LEDs are on,
\* whether or not an input test is selected.
C26_ButtonLightsAll ==
    NormalCycle /\ AnyButtonNow => \A k \in LedIdx : hw.leds[k] = LED_FULL

\* one button pressed with an input test selected: the LEDs show the test
C26_Witness ==
    /\ NormalCycle
    /\ AnyButtonNow
    /\ inputs_.selected_input_ # "NONE"
    /\ \E k \in LedIdx : hw.leds[k] # LED_FULL

\* the coupling writes of the last update(), as <<channel, AC?>> pairs in order
CouplingWrites(s) ==
    [k \in 1 .. CountOp(s, "set_coupling") |->
        LET idx == {j \in 1 .. Len(s) : s[j].op = "set_coupling"}
            pos == CHOOSE j \in idx :
                       Cardinality({i \in idx : i <= j}) = k
        IN <<s[pos].a, s[pos].b>>]

\* C27: the coupling flag changes only in a cycle with both buttons held and
\* pot 2 above 5; after such a cycle the flag is AC iff pot 2 >= 64; the
\* coupling of the two analog channels is written (both, to the new flag) in
\* exactly the updates that change the flag; with pot 2 <= 5 or not both
\* buttons held the flag is as before.
C27_CouplingFromPot ==
    [][LET held == /\ hist'.op = "interactive"
                   /\ pots_and_buttons_'.button1_pressed_
                   /\ pots_and_buttons_'.button2_pressed_
           pot2 == pots_and_buttons_'.pot_values_[2]
           changed == outputs_'.ac_coupled_ # outputs_.ac_coupled_
       IN /\ changed => held /\ pot2 > 5
          /\ held /\ pot2 > 5 => (outputs_'.ac_coupled_ <=> pot2 >= 64)
          /\ ~held \/ pot2 <= 5 => ~changed
          /\ changed =>
                CouplingWrites(ev') =
                    << <<CHANNEL_A, BoolInt(outputs_'.ac_coupled_)>>,
                       <<CHANNEL_B, BoolInt(outputs_'.ac_coupled_)>> >>
          /\ ~changed => /\ CouplingWrites(ev') = <<>>
                         /\ hw'.coupling = hw.coupling
          /\ \A c \in {CHANNEL_A, CHANNEL_B} :
                hw'.coupling[c] = outputs_'.ac_coupled_]_vars

\* a held cycle with pot 2 at 64 that switched both channels to AC
C27_Witness ==
    /\ HeldCycle
    /\ Pot(2) = 64
    /\ outputs_.ac_coupled_
    /\ CouplingWrites(ev) = << <<CHANNEL_A, 1>>, <<CHANNEL_B, 1>> >>

\* a held cycle with pot 2 at 6 that switched both channels back to DC
C27_WitnessBack ==
    /\ HeldCycle
    /\ Pot(2) = 6
    /\ ~outputs_.ac_coupled_
    /\ CouplingWrites(ev) = << <<CHANNEL_A, 0>>, <<CHANNEL_B, 0>> >>

\* C28 (as stated): after a cycle with both buttons held and pot 0 at 50 the
\* input selection is AUDIO_A and LED 0 is lit.
C28_FiftySelectsA ==
    HeldCycle /\ Pot(0) = 50 =>
        /\ inputs_.selected_input_ = "AUDIO_A"
        /\ hw.leds[0] = LED_FULL

\* C28 (amended): after a cycle with both buttons held and pot 0 at 50 the
\* input selection is AUDIO_B, LED 1 is lit and LED 0 is off; AUDIO_A and a lit
\* LED 0 are what pot 0 in 1..42 gives.
C28_FiftySelectsB ==
    /\ HeldCycle /\ Pot(0) = 50 =>
          /\ inputs_.selected_input_ = "AUDIO_B"
          /\ hw.leds[1] = LED_FULL
          /\ hw.leds[0] = LED_OFF
    /\ HeldCycle /\ Pot(0) \in 1 .. 42 =>
          /\ inputs_.selected_input_ = "AUDIO_A"
          /\ hw.leds[0] = LED_FULL
          /\ hw.leds[1] = LED_OFF

\* both buttons held with pot 0 at 50: input B selected and shown
C28_Witness ==
    /\ HeldCycle
    /\ Pot(0) = 50
    /\ inputs_.selected_input_ = "AUDIO_B"
    /\ hw.leds[1] = LED_FULL

InBrightnessTest == diag.current_state_ = "LED_BRIGHTNESS_TEST"

\* C29: in the brightness test every level 51, 102, 153, 204, 255 set on an LED
\* is what the LED shows when that update() returns, and the LED keeps it
\* until a change at least 500 ms after the step that set it.
C29_LevelHeldForStep ==
    /\ [](\A k \in EvIdx("set_brightness") : hw.leds[ev[k].a] = ev[k].b)
    /\ [][InBrightnessTest =>
             \A l \in LedIdx :
                 hw'.leds[l] # hw.leds[l] /\ hw.leds[l] # LED_OFF =>
                     now' - diag.last_update_time_ >= BRIGHTNESS_TEST_DELAY]_vars

\* the update() that set an LED to 255 returned with that LED off
C29_Witness ==
    \E k \in EvIdx("set_brightness") :
        /\ ev[k].b = 255
        /\ hw.leds[ev[k].a] = LED_OFF

\* the gating interval of the state the controller is in
GateMs ==
    IF diag.current_state_ = "LED_STARTUP_ANIMATION" THEN STARTUP_ANIMATION_DELAY
    ELSE BRIGHTNESS_TEST_DELAY

\* C30: an update() made in LED_STARTUP_ANIMATION less than 1000 ms, or in
\* LED_BRIGHTNESS_TEST less than 500 ms, after the last step changes no
\* controller field, writes no LED (or anything else) and leaves the pots,
\* buttons, inputs and outputs unpolled, whatever the peripherals deliver.
C30_GatedCallIsNoOp ==
    [][~InInteractive /\ now' - diag.last_update_time_ < GateMs =>
          /\ diag' = diag
          /\ ev' = <<>>
          /\ hw' = hw
          /\ pots_and_buttons_' = pots_and_buttons_
          /\ inputs_' = inputs_
          /\ outputs_' = outputs_]_vars

\* a call 250 ms after a brightness step, and one 750 ms after an animation
C30_Witness ==
    /\ InBrightnessTest
    /\ hist.op = "brightness"
    /\ hist.bright_steps >= 1
    /\ now - diag.last_update_time_ = 250
    /\ ev = <<>>

C30_WitnessAnimation ==
    /\ diag.current_state_ = "LED_STARTUP_ANIMATION"
    /\ hist.op = "startup"
    /\ hist.anim_steps >= 1
    /\ now - diag.last_update_time_ = 750
    /\ ev = <<>>

PotRangeApplied == fn.applied /\ Len(fn.arg) = 2 /\ Len(fn.res) = 4

\* C32: for every cached pot value v in 128..65535 map_pot_to_leds returns 6
\* and both selection mappers return PULSE; for a pot index >= 3
\* get_pot_value and map_pot_to_leds return 0.
C32_OutOfRangeClamped ==
    PotRangeApplied =>
        /\ fn.arg[1] > 127 /\ fn.arg[2] < 3 => fn.res[1] = 6
        /\ fn.arg[1] > 127 => fn.res[3] = "PULSE" /\ fn.res[4] = "PULSE"
        /\ fn.arg[2] >= 3 => fn.res[1] = 0 /\ fn.res[2] = 0

\* the parts of C32 about the selection mappers and the pot index
C32_MappersAndIndex ==
    PotRangeApplied =>
        /\ fn.arg[1] > 127 => fn.res[3] = "PULSE" /\ fn.res[4] = "PULSE"
        /\ fn.arg[2] >= 3 => fn.res[1] = 0 /\ fn.res[2] = 0
        /\ fn.arg[2] < 3 => fn.res[2] = fn.arg[1] /\ fn.res[1] \in 0 .. 6

\* the count 256 of the value 5409 wraps to 0 in the 8-bit variable
C32_Witness ==
    /\ PotRangeApplied
    /\ fn.arg = <<5409, 0>>
    /\ fn.res[1] = 0

RestVoltage == IF outputs_.ac_coupled_ THEN STOP_VOLTAGE_AC ELSE STOP_VOLTAGE_DC

\* the analog channels the selected output does not drive
IdleChannels ==
    {c \in {CHANNEL_A, CHANNEL_B} :
        ~(outputs_.selected_output_ = "AUDIO_A" /\ c = CHANNEL_A)
        /\ ~(outputs_.selected_output_ = "AUDIO_B" /\ c = CHANNEL_B)}

\* C33: once an output has been selected, after every interactive cycle each
\* analog channel that is not the selected output is at the resting voltage
\* of the current coupling flag (5 V when DC, 0 V when AC).
C33_IdleChannelsAtRest ==
    hist.op = "interactive" /\ outputs_.selected_output_ # "NONE" =>
        \A c \in IdleChannels : hw.voltage[c] = RestVoltage

\* the digital output selected and the coupling switched to AC in one held
\* cycle: both analog channels were parked at the DC value
C33_Witness ==
    /\ HeldCycle
    /\ outputs_.selected_output_ = "PULSE"
    /\ outputs_.ac_coupled_
    /\ hw.voltage[CHANNEL_A] = STOP_VOLTAGE_DC
    /\ hw.voltage[CHANNEL_B] = STOP_VOLTAGE_DC

\* the pattern a normal-mode cycle is meant to leave on the LEDs: the level
\* the meter returned in this cycle, the digital input read in this cycle,
\* or the buttons and pots polled in this cycle
IntendedLeds ==
    CASE inputs_.selected_input_ \in {"AUDIO_A", "AUDIO_B"} ->
            {LitFromZero(ev[k].b) : k \in EvIdx("print_vu")}
      [] inputs_.selected_input_ = "PULSE" ->
            {LitFromZero(IF inputs_.last_pulse_state_ THEN NO_OF_LEDS ELSE 0)}
      [] OTHER ->
            {IF AnyButtonNow THEN LitFromZero(NO_OF_LEDS)
             ELSE LitFromZero((6 * Pot(HighestPot) + 63) \div 127)}

\* C34: after every interactive cycle with not both buttons held the LEDs
\* show the pattern intended for that cycle, although unchanged values are
\* not rewritten: the first interactive cycle and the cycle after a release
\* of both buttons included.
C34_NoStaleDisplay ==
    NormalCycle => IntendedLeds = {hw.leds}

\* the cycle after a release with the meter at the level it showed before the
\* status display: the bar is drawn again
C34_Witness ==
    /\ NormalCycle
    /\ hist.prev_held
    /\ inputs_.selected_input_ = "AUDIO_A"
    /\ \E k \in EvIdx("print_vu") : ev[k].b = 6
    /\ hw.leds = LitFromZero(6)

\* the first interactive cycle: the bar of the highest pot on the dark LEDs
C34_WitnessFirstCycle ==
    /\ NormalCycle
    /\ ~hist.ever_held
    /\ ~AnyButtonNow
    /\ Pot(1) = 80
    /\ hw.leds = LitFromZero(4)

\* C35: an input (output) selection that is not NONE never becomes NONE; an
\* interactive cycle that starts with an output selected renders an output;
\* a normal-mode cycle that starts with an input selected leaves the input
\* test on the LEDs (the meter level or the digital input), not the pots and
\* buttons.
C35_SelectionSticks ==
    [][/\ inputs_.selected_input_ # "NONE" => inputs_'.selected_input_ # "NONE"
       /\ outputs_.selected_output_ # "NONE" =>
             /\ outputs_'.selected_output_ # "NONE"
             /\ hist'.op = "interactive" =>
                   \E k \in 1 .. Len(ev') : ev'[k].op \in RenderOps
       /\ /\ inputs_.selected_input_ # "NONE"
          /\ hist'.op = "interactive"
          /\ ~(pots_and_buttons_'.button1_pressed_
                  /\ pots_and_buttons_'.button2_pressed_)
          => IF inputs_'.selected_input_ = "PULSE"
             THEN hw'.leds = LitFromZero(IF inputs_'.last_pulse_state_
                                         THEN NO_OF_LEDS ELSE 0)
             ELSE \E k \in 1 .. Len(ev') :
                      /\ ev'[k].op = "print_vu"
                      /\ hw'.leds = LitFromZero(ev'[k].b)]_vars

\* both selectors at 0 in a held cycle with both sides selected: kept
C35_Witness ==
    /\ HeldCycle
    /\ Pot(0) = 0
    /\ Pot(1) = 0
    /\ hist.pre_input # "NONE"
    /\ hist.pre_output # "NONE"
    /\ inputs_.selected_input_ = hist.pre_input
    /\ outputs_.selected_output_ = hist.pre_output

\* C36: in every state the level last written to the digital output equals
\* pulse_state_, and the digital output is high only while the output
\* selection is PULSE (low under NONE, AUDIO_A and AUDIO_B).
C36_PulseTracked ==
    /\ hw.pulse_out = outputs_.pulse_state_
    /\ hw.pulse_out => outputs_.selected_output_ = "PULSE"

\* the selection left PULSE while the digital output was high: driven low
C36_Witness ==
    /\ hist.op = "interactive"
    /\ hist.pre_output = "PULSE"
    /\ hist.pre_pulse_out
    /\ outputs_.selected_output_ = "AUDIO_A"
    /\ ~hw.pulse_out
    /\ ~outputs_.pulse_state_

\* C37: a cycle with both buttons held that leaves the input selection as it
\* was leaves the peak, the peak timestamp and the pulse tracking as they
\* were; one that leaves the output selection as it was leaves the waveform
\* epoch as it was, moves the last rendered phase and the digital state only
\* as the render of the running waveform does, and writes no voltage other
\* than that render's single write to the selected channel (no resting value
\* on either channel, no forced low on the digital output).
C37_SameSelectionNoOp ==
    [][LET held == /\ hist'.op = "interactive"
                   /\ pots_and_buttons_'.button1_pressed_
                   /\ pots_and_buttons_'.button2_pressed_
           phase == (now' - outputs_.waveform_start_time_) % WAVEFORM_PERIOD_MS
           sel == outputs_.selected_output_
           volts == {k \in 1 .. Len(ev') : ev'[k].op = "set_voltage"}
           pulses == {k \in 1 .. Len(ev') : ev'[k].op = "pulse_set"}
       IN /\ held /\ inputs_'.selected_input_ = inputs_.selected_input_ =>
                /\ inputs_'.vu_peak_hold_ = inputs_.vu_peak_hold_
                /\ inputs_'.vu_peak_time_ = inputs_.vu_peak_time_
                /\ inputs_'.pulse_state_initialized_
                      = inputs_.pulse_state_initialized_
          /\ held /\ outputs_'.selected_output_ = sel =>
                /\ outputs_'.waveform_start_time_ = outputs_.waveform_start_time_
                /\ outputs_'.last_phase_ms_ =
                      IF sel \in {"AUDIO_A", "AUDIO_B"} THEN phase
                      ELSE outputs_.last_phase_ms_
                /\ outputs_'.pulse_state_ =
                      IF sel = "PULSE" THEN phase < 500 ELSE outputs_.pulse_state_
                /\ Cardinality(volts) <= 1
                /\ \A k \in volts :
                      /\ sel \in {"AUDIO_A", "AUDIO_B"}
                      /\ ev'[k].a = ChannelOf(sel)
                      /\ phase # outputs_.last_phase_ms_
                /\ \A k \in pulses :
                      /\ sel = "PULSE"
                      /\ outputs_.pulse_state_ # (phase < 500)
                      /\ ev'[k].a = BoolInt(phase < 500)]_vars

\* both selectors held on the running selections, with a stored peak and the
\* waveform past its first phase
C37_Witness ==
    /\ HeldCycle
    /\ Pot(0) = 10
    /\ Pot(1) = 42
    /\ hist.pre_input = "AUDIO_A"
    /\ hist.pre_output = "AUDIO_A"
    /\ inputs_.vu_peak_hold_ > 0
    /\ inputs_.vu_peak_time_ < now
    /\ outputs_.waveform_start_time_ < now
    /\ outputs_.last_phase_ms_ > 0

\* C38: after a level-meter computation the stored peak is at least the
\* deviation |sample - 2048| of the sample just processed and at most 2048,
\* for every raw sample 0..4095; a call made no more than 100 ms after the
\* peak was raised does not lower the peak.
C38_PeakBounds ==
    fn.applied /\ Len(fn.arg) = 3 /\ Len(fn.res) = 3 =>
        LET sample == fn.arg[1]
            dev == IF sample >= 2048 THEN sample - 2048 ELSE 2048 - sample
        IN /\ fn.res[1] >= dev
           /\ fn.res[1] <= 2048
           /\ fn.arg[3] <= 100 => fn.res[1] >= fn.arg[2]

\* a quiet sample exactly 100 ms after a peak of 1000: the peak stays
C38_Witness ==
    /\ fn.applied
    /\ fn.arg = <<2048, 1000, 100>>
    /\ fn.res[1] = 1000

\* the same sample one millisecond later: the peak falls to the deviation
C38_WitnessDecay ==
    /\ fn.applied
    /\ fn.arg = <<2048, 1000, 101>>
    /\ fn.res[1] = 0

====
